---- MODULE Spec2Model ----
(***************************************************************************)
(* A model of lrc: the flat-memory virtual machine (lrc/core.py), its      *)
(* fetch-decode-execute interpreter (lrc/interpreter.py), the memory       *)
(* mapped output device (lrc/device.py), the assembler back end            *)
(* (lrc/compiler.py) and the host flow that wires them (bin/lrcc.py).      *)
(*                                                                         *)
(* Python integers are unbounded and a memory word ranges over [0, 2^32).  *)
(* An integer n is represented by the pair <<h, l>> with n = h*2^16 + l    *)
(* and 0 <= l < 2^16 (the same split the host's dump prints), so that a    *)
(* word is a pair with 0 <= h < 2^16, a negative integer has h < 0 and an  *)
(* integer of 2^32 or more has h >= 2^16.                                  *)
(***************************************************************************)
EXTENDS Integers, Sequences, FiniteSets, TLC

VARIABLES
    pc,            \* position of the host: compile, load, start, loop, done, aborted
    program,       \* the text of the program file
    instructions,  \* the list Compiler.compile returned
    labels,        \* the label table Compiler.find_labels built
    errline,       \* the line UnrecognizedInstruction carries, as <<line>>
    ram,           \* Memory._ram: a dict from written index to value
    ptr,           \* Memory.ptr
    queue,         \* the event loop's FIFO of ready callbacks
    buf,           \* TerminalStdout.buf
    out,           \* the code points written to sys.stdout, in order
    status,        \* running, halted (Terminate) or fault
    fault,         \* the exception that ended the run, or none
    nticks,        \* number of tick activations so far
    acts,          \* the activations of tick and listen so far, in order
    wrote0,        \* nonzero values executed instructions wrote to address 0
    straight,      \* no tick so far executed JMP/BRA/BRB or wrote a program cell
    writes,        \* log of the successful Memory.write calls <<index, value>>
    last,          \* the last Memory operation attempted through the API
    prev           \* Memory._ram before the last API operation

vars == <<pc, program, instructions, labels, errline, ram, ptr, queue, buf,
          out, status, fault, nticks, acts, wrote0, straight, writes, last,
          prev>>

----------------------------------------------------------------------------
(* Bounds of the model.                                                    *)

MaxProg == 3

MaxTicks == 7

MaxOps == 2

MaxLoad == 2

----------------------------------------------------------------------------
(* Program constants.                                                      *)

W16 == 65536

ADDR_IO == 0

ADDR_REG == 17

ADDR_FLG == 25

ADDR_PRG == 33

MASK_REF == 4096

MASK_VAL == 4095

ChrLimitHi == 17

----------------------------------------------------------------------------
(* Unbounded integers as pairs.                                            *)

ToBig(n) == <<n \div W16, n % W16>>

Zero == <<0, 0>>

BigAdd(a, b) == <<a[1] + b[1] + ((a[2] + b[2]) \div W16), (a[2] + b[2]) % W16>>

BigLess(a, b) == a[1] < b[1] \/ (a[1] = b[1] /\ a[2] < b[2])

InWord(v) == 0 <= v[1] /\ v[1] < W16

Max(S) == CHOOSE x \in S : \A y \in S : y <= x

----------------------------------------------------------------------------
(* core.Memory                                                             *)

\* mutant: the number of written cells instead of the highest index plus one
MemLenCount(m) == Cardinality(DOMAIN m)

\* mutant: the highest index, without the plus one
MemLenMax(m) == IF DOMAIN m # {} THEN Max(DOMAIN m) ELSE 0

MemLen(m) == IF DOMAIN m # {} THEN Max(DOMAIN m) + 1 ELSE 0

MemRead(m, index) == IF index \in DOMAIN m THEN m[index] ELSE Zero

MemIter(m) == [i \in 1..MemLen(m) |-> MemRead(m, i - 1)]

\* mutant: the upper bound of the value is not checked
WriteOkNoUpper(index, value) == 0 <= index /\ 0 <= value[1]

WriteOk(index, value) == 0 <= index /\ InWord(value)

MemStore(m, index, value) ==
    [i \in DOMAIN m \cup {index} |-> IF i = index THEN value ELSE m[i]]

\* Memory.write: the new dict, the exception raised, the write performed
MemWrite(m, index, value) ==
    IF WriteOk(index, value)
    THEN [ram |-> MemStore(m, index, value), err |-> "none",
          wr |-> <<<<index, value>>>>]
    ELSE [ram |-> m, err |-> "AssertionError", wr |-> <<>>]

LoadWrites(prog) ==
    [i \in 1..Len(prog) |-> <<ADDR_PRG + i - 1, prog[i].value>>]

\* Memory.load_program: writes the values in order; the first write that
\* fails raises out of the loop, the earlier ones stay.
RECURSIVE LoadFrom(_, _, _)
LoadFrom(m, prog, i) ==
    IF i > Len(prog) THEN [ram |-> m, err |-> "none", wr |-> LoadWrites(prog)]
    ELSE LET w == MemWrite(m, ADDR_PRG + i - 1, prog[i].value)
         IN IF w.err # "none"
            THEN [ram |-> m, err |-> w.err, wr |-> SubSeq(LoadWrites(prog), 1, i - 1)]
            ELSE LoadFrom(w.ram, prog, i + 1)

LoadProgramOf(m, prog) == LoadFrom(m, prog, 1)

----------------------------------------------------------------------------
(* core.Operand and core.Opcode                                            *)

Mnemonics ==
    <<"NUL", "STA", "LDA", "INC", "DEC", "ADD", "SUB", "JMP", "MOV", "CMP",
      "BRA", "BRB", "HLT">>

\* the class attribute OPCODE of the class whose MNEUMONIC is mn
OPCODE(mn) == (CHOOSE i \in 1..Len(Mnemonics) : Mnemonics[i] = mn) - 1

Operand(data) ==
    [value |-> data % (MASK_VAL + 1), ref |-> (data \div MASK_REF) % 2 # 0]

\* mutant: the reference bit is dropped
OperandIntNoRef(o) == o.value

OperandInt(o) == IF o.ref THEN o.value + MASK_REF ELSE o.value

\* (OPCODE << 28) + (lo << 14) + hi over unbounded integers
EncodeValue(opcode, lo, hi) ==
    <<opcode * 4096 + ((lo * 16384 + hi) \div W16), (lo * 16384 + hi) % W16>>

OpcodeNew(mn, lo, hi) ==
    [mneumonic |-> mn, opcode |-> OPCODE(mn),
     value |-> EncodeValue(OPCODE(mn), lo, hi), lo |-> lo, hi |-> hi]

----------------------------------------------------------------------------
(* interpreter.Interpreter.interpret                                       *)

\* (data & mask_in) >> 28
InsOf(data) == (data[1] % W16) \div 4096

\* (data & mask_lo) >> 14
LoField(data) == ((data[1] % W16) % 4096) * 4 + (data[2] \div 16384)

\* data & mask_hi
HiField(data) == data[2] % 16384

\* Interpreter.opcodes: the keys are the OPCODE numbers of the 13 classes
OpcodeKeys == 0..(Len(Mnemonics) - 1)

Interpret(data) ==
    OpcodeNew(Mnemonics[InsOf(data) + 1],
              OperandInt(Operand(LoField(data))),
              OperandInt(Operand(HiField(data))))

----------------------------------------------------------------------------
(* The execute methods of the Opcode subclasses.  Each takes the decoded   *)
(* instruction, the Memory dict and ptr, and gives the new dict and ptr,   *)
(* the exception raised (none, Terminate, AssertionError) and the write    *)
(* it performed.                                                           *)

NoWrite(m, p) == [ram |-> m, ptr |-> p, err |-> "none", wr |-> <<>>]

\* an execute method that ends with memory.write and leaves ptr alone
Wrote(w, p) == [ram |-> w.ram, ptr |-> p, err |-> w.err, wr |-> w.wr]

NullExecute(op, m, p) == NoWrite(m, p)

StoreExecute(op, m, p) == Wrote(MemWrite(m, op.lo, MemRead(m, ADDR_REG)), p)

LoadExecute(op, m, p) == Wrote(MemWrite(m, ADDR_REG, ToBig(op.lo)), p)

\* mutant: INC wraps at 2^16 as ADD does
IncrementExecuteWrap(op, m, p) ==
    Wrote(MemWrite(m, op.lo, <<0, (MemRead(m, op.lo)[2] + 1) % W16>>), p)

IncrementExecute(op, m, p) ==
    Wrote(MemWrite(m, op.lo, BigAdd(MemRead(m, op.lo), ToBig(1))), p)

\* mutant: DEC wraps from 0 to 2^32 - 1
DecrementExecuteWrap(op, m, p) ==
    Wrote(MemWrite(m, op.lo,
                   IF MemRead(m, op.lo) = Zero
                   THEN <<W16 - 1, W16 - 1>>
                   ELSE BigAdd(MemRead(m, op.lo), ToBig(-1))), p)

DecrementExecute(op, m, p) ==
    Wrote(MemWrite(m, op.lo, BigAdd(MemRead(m, op.lo), ToBig(-1))), p)

AdditionExecute(op, m, p) ==
    Wrote(MemWrite(m, op.lo,
                   <<0, (MemRead(m, op.lo)[2] + MemRead(m, op.hi)[2]) % W16>>), p)

\* mutant: SUB reads its subtrahend from memory as ADD reads its addend
SubtractionExecuteRef(op, m, p) ==
    Wrote(MemWrite(m, op.lo,
                   <<0, (MemRead(m, op.lo)[2] - MemRead(m, op.hi)[2]) % W16>>), p)

SubtractionExecute(op, m, p) ==
    Wrote(MemWrite(m, op.lo, <<0, (MemRead(m, op.lo)[2] - op.hi) % W16>>), p)

\* mutant: ptr is set to the target itself
JumpExecuteDirect(op, m, p) == NoWrite(m, op.lo)

JumpExecute(op, m, p) == NoWrite(m, op.lo - 1)

\* mutant: an operand with the reference bit set names the cell that holds
\* the address
MoveExecuteIndirect(op, m, p) ==
    Wrote(MemWrite(m, op.lo,
                   IF op.hi >= MASK_REF
                   THEN MemRead(m, MemRead(m, op.hi - MASK_REF)[2])
                   ELSE MemRead(m, op.hi)), p)

MoveExecute(op, m, p) == Wrote(MemWrite(m, op.lo, MemRead(m, op.hi)), p)

\* mutant: a three-way comparison, 2 standing for greater
CompareExecuteThreeWay(op, m, p) ==
    Wrote(MemWrite(m, ADDR_FLG,
                   IF BigLess(MemRead(m, op.lo), MemRead(m, op.hi)) THEN ToBig(1)
                   ELSE IF MemRead(m, op.lo) = MemRead(m, op.hi) THEN ToBig(0)
                   ELSE ToBig(2)), p)

\* mutant: the comparison is not strict
CompareExecuteLeq(op, m, p) ==
    Wrote(MemWrite(m, ADDR_FLG,
                   IF ~BigLess(MemRead(m, op.hi), MemRead(m, op.lo))
                   THEN ToBig(1) ELSE ToBig(0)), p)

CompareExecute(op, m, p) ==
    Wrote(MemWrite(m, ADDR_FLG,
                   IF BigLess(MemRead(m, op.lo), MemRead(m, op.hi))
                   THEN ToBig(1) ELSE ToBig(0)), p)

BranchAboveExecute(op, m, p) ==
    IF MemRead(m, ADDR_FLG) = ToBig(0) THEN NoWrite(m, op.lo - 1)
    ELSE NoWrite(m, p)

BranchBelowExecute(op, m, p) ==
    IF MemRead(m, ADDR_FLG) = ToBig(1) THEN NoWrite(m, op.lo - 1)
    ELSE NoWrite(m, p)

\* mutant: ptr is advanced before Terminate is raised
HaltExecuteAdvance(op, m, p) ==
    [ram |-> m, ptr |-> p + 1, err |-> "Terminate", wr |-> <<>>]

\* mutant: HLT raises nothing
HaltExecuteNoRaise(op, m, p) ==
    [ram |-> m, ptr |-> p, err |-> "none", wr |-> <<>>]

HaltExecute(op, m, p) ==
    [ram |-> m, ptr |-> p, err |-> "Terminate", wr |-> <<>>]

Execute(op, m, p) ==
    CASE op.mneumonic = "NUL" -> NullExecute(op, m, p)
      [] op.mneumonic = "STA" -> StoreExecute(op, m, p)
      [] op.mneumonic = "LDA" -> LoadExecute(op, m, p)
      [] op.mneumonic = "INC" -> IncrementExecute(op, m, p)
      [] op.mneumonic = "DEC" -> DecrementExecute(op, m, p)
      [] op.mneumonic = "ADD" -> AdditionExecute(op, m, p)
      [] op.mneumonic = "SUB" -> SubtractionExecute(op, m, p)
      [] op.mneumonic = "JMP" -> JumpExecute(op, m, p)
      [] op.mneumonic = "MOV" -> MoveExecute(op, m, p)
      [] op.mneumonic = "CMP" -> CompareExecute(op, m, p)
      [] op.mneumonic = "BRA" -> BranchAboveExecute(op, m, p)
      [] op.mneumonic = "BRB" -> BranchBelowExecute(op, m, p)
      [] op.mneumonic = "HLT" -> HaltExecute(op, m, p)

----------------------------------------------------------------------------
(* The body of Interpreter.run.tick up to the exception handlers.          *)

\* mutant: the bound is inclusive
OffEndInclusive(p, m) == p >= MemLen(m)

\* the comparison of line 63
OffEnd(p, m) == p > MemLen(m)

\* mutant: a word with no table entry is skipped like NUL
TickBodySkip(m, p) ==
    IF p < 0
    THEN [ram |-> m, ptr |-> p, err |-> "AssertionError", wr |-> <<>>]
    ELSE LET e == IF InsOf(MemRead(m, p)) \notin OpcodeKeys THEN NoWrite(m, p)
                  ELSE Execute(Interpret(MemRead(m, p)), m, p)
         IN IF e.err # "none" THEN e
            ELSE IF OffEnd(e.ptr + 1, e.ram)
            THEN [e EXCEPT !.ptr = e.ptr + 1, !.err = "SegmentationFault"]
            ELSE [e EXCEPT !.ptr = e.ptr + 1]

\* mutant: ptr is not compared with the length after the increment
TickBodyUnchecked(m, p) ==
    IF p < 0
    THEN [ram |-> m, ptr |-> p, err |-> "AssertionError", wr |-> <<>>]
    ELSE IF InsOf(MemRead(m, p)) \notin OpcodeKeys
    THEN [ram |-> m, ptr |-> p, err |-> "KeyError", wr |-> <<>>]
    ELSE LET e == Execute(Interpret(MemRead(m, p)), m, p)
         IN IF e.err # "none" THEN e
            ELSE [e EXCEPT !.ptr = e.ptr + 1]

\* mutant: ptr is not incremented after execute
TickBodyStay(m, p) ==
    IF p < 0
    THEN [ram |-> m, ptr |-> p, err |-> "AssertionError", wr |-> <<>>]
    ELSE IF InsOf(MemRead(m, p)) \notin OpcodeKeys
    THEN [ram |-> m, ptr |-> p, err |-> "KeyError", wr |-> <<>>]
    ELSE LET e == Execute(Interpret(MemRead(m, p)), m, p)
         IN IF e.err # "none" THEN e
            ELSE IF OffEnd(e.ptr, e.ram)
            THEN [e EXCEPT !.err = "SegmentationFault"]
            ELSE e

TickBody(m, p) ==
    IF p < 0
    THEN [ram |-> m, ptr |-> p, err |-> "AssertionError", wr |-> <<>>]
    ELSE IF InsOf(MemRead(m, p)) \notin OpcodeKeys
    THEN [ram |-> m, ptr |-> p, err |-> "KeyError", wr |-> <<>>]
    ELSE LET e == Execute(Interpret(MemRead(m, p)), m, p)
         IN IF e.err # "none" THEN e
            ELSE IF OffEnd(e.ptr + 1, e.ram)
            THEN [e EXCEPT !.ptr = e.ptr + 1, !.err = "SegmentationFault"]
            ELSE [e EXCEPT !.ptr = e.ptr + 1]

----------------------------------------------------------------------------
(* device.TerminalStdout                                                   *)

\* chr() is defined on range(0x110000) and raises ValueError elsewhere
ChrOk(v) == 0 <= v[1] /\ v[1] < ChrLimitHi

\* TerminalStdout.flush: when chr raises, nothing is written and buf stays
Flush(b, o) ==
    IF \A i \in 1..Len(b) : ChrOk(b[i])
    THEN [buf |-> <<>>, out |-> o \o b]
    ELSE [buf |-> b, out |-> o]

----------------------------------------------------------------------------
(* The asyncio event loop: a FIFO of ready callbacks.                      *)

\* mutant: the new task runs before the callbacks already queued
CreateTaskFront(q, t) == <<t>> \o q

CreateTask(q, t) == Append(q, t)

CallSoon(q, cb) == Append(q, cb)

Tasks == {"listen", "tick", "shutdown"}

\* Task.cancel on every task: a task whose first step is still queued gets
\* CancelledError thrown into it before its body starts.
CancelAll(q) ==
    [i \in 1..Len(q) |-> IF q[i] \in Tasks THEN "cancelled" ELSE q[i]]

\* mutant: a poll whose flush raises does not create the next poll
ListenBodyStall(m, b, o, q) ==
    LET val == MemRead(m, ADDR_IO)
        got == val # Zero
        b1  == IF got THEN Append(b, val) ELSE b
        m1  == IF got THEN MemWrite(m, ADDR_IO, Zero).ram ELSE m
        q1  == IF got THEN CallSoon(q, "flush") ELSE q
        f   == Flush(b1, o)
    IN [ram |-> m1, buf |-> f.buf, out |-> f.out,
        queue |-> IF f.buf = <<>> THEN CreateTask(q1, "listen") ELSE q1,
        wr |-> IF got THEN <<<<ADDR_IO, Zero>>>> ELSE <<>>]

\* mutant: listen buffers the value and leaves it at address 0
ListenBodyKeep(m, b, o, q) ==
    LET val == MemRead(m, ADDR_IO)
        got == val # Zero
        b1  == IF got THEN Append(b, val) ELSE b
        q1  == IF got THEN CallSoon(q, "flush") ELSE q
        f   == Flush(b1, o)
    IN [ram |-> m, buf |-> f.buf, out |-> f.out,
        queue |-> CreateTask(q1, "listen"),
        wr |-> <<>>]

\* TerminalStdout.listen, run with the rest of the queue q
ListenBody(m, b, o, q) ==
    LET val == MemRead(m, ADDR_IO)
        got == val # Zero
        b1  == IF got THEN Append(b, val) ELSE b
        m1  == IF got THEN MemWrite(m, ADDR_IO, Zero).ram ELSE m
        q1  == IF got THEN CallSoon(q, "flush") ELSE q
        f   == Flush(b1, o)
    IN [ram |-> m1, buf |-> f.buf, out |-> f.out,
        queue |-> CreateTask(q1, "listen"),
        wr |-> IF got THEN <<<<ADDR_IO, Zero>>>> ELSE <<>>]

----------------------------------------------------------------------------
(* History of writes.                                                      *)

PortWrites(wr) ==
    SelectSeq(wr, LAMBDA x : x[1] = ADDR_IO /\ x[2] # Zero)

\* the tick at p neither fetched a JMP, BRA or BRB nor wrote one of the n
\* cells of the loaded program
Sequential(m, p, wr, n) ==
    /\ InsOf(MemRead(m, p)) \notin {OPCODE("JMP"), OPCODE("BRA"), OPCODE("BRB")}
    /\ \A i \in 1..Len(wr) : wr[i][1] \notin ADDR_PRG..(ADDR_PRG + n - 1)

PortValues(wr) == [i \in 1..Len(PortWrites(wr)) |-> PortWrites(wr)[i][2]]

----------------------------------------------------------------------------
(* Text.  A program and each of its lines are strings; the str methods    *)
(* the assembler calls are computed character by character.                *)

\* the characters m to n of s, counted from 1, as far as s has them
Sub(s, m, n) ==
    IF (IF m < 1 THEN 1 ELSE m) > (IF n > Len(s) THEN Len(s) ELSE n) THEN ""
    ELSE SubSeq(s, IF m < 1 THEN 1 ELSE m, IF n > Len(s) THEN Len(s) ELSE n)

Ch(s, i) == Sub(s, i, i)

Chars(s) == {Ch(s, i) : i \in 1..Len(s)}

Min(S) == CHOOSE x \in S : \A y \in S : x <= y

Letters == Chars("abcdefghijklmnopqrstuvwxyzABCDEFGHIJKLMNOPQRSTUVWXYZ")

Digits == Chars("0123456789")

\* the whitespace characters that occur in the inputs
Whitespace == {" ", "\t"}

\* the length of the longest prefix of s made of characters of C
RECURSIVE Span(_, _)
Span(s, C) == IF s # "" /\ Head(s) \in C THEN 1 + Span(Tail(s), C) ELSE 0

\* the length of the longest prefix of s without the character c
RECURSIVE SpanTo(_, _)
SpanTo(s, c) == IF s # "" /\ Head(s) # c THEN 1 + SpanTo(Tail(s), c) ELSE 0

\* str.find: the 0-based index of the first c in s, or -1
Find(s, c) == IF SpanTo(s, c) < Len(s) THEN SpanTo(s, c) ELSE -1

\* str.startswith for a one-character prefix
StartsWith(s, c) == s # "" /\ Head(s) = c

\* str.strip
RECURSIVE RStrip(_)
RStrip(s) ==
    IF s # "" /\ Ch(s, Len(s)) \in Whitespace
    THEN RStrip(Sub(s, 1, Len(s) - 1)) ELSE s

Strip(s) == RStrip(Sub(s, Span(s, Whitespace) + 1, Len(s)))

\* str.split(sep) for a one-character separator
RECURSIVE Split(_, _)
Split(s, sep) ==
    LET k == Find(s, sep)
    IN IF k < 0 THEN <<s>>
       ELSE <<Sub(s, 1, k)>> \o Split(Sub(s, k + 2, Len(s)), sep)

\* str.splitlines: a final line break does not open another line
SplitLines(s) ==
    LET parts == Split(s, "\n")
    IN IF s = "" THEN <<>>
       ELSE IF parts[Len(parts)] = "" THEN SubSeq(parts, 1, Len(parts) - 1)
       ELSE parts

\* the decimal digits of a natural number and of an integer
RECURSIVE NatText(_)
NatText(n) ==
    IF n < 10 THEN Ch("0123456789", n + 1)
    ELSE NatText(n \div 10) \o Ch("0123456789", (n % 10) + 1)

IntText(n) == IF n < 0 THEN "-" \o NatText(-n) ELSE NatText(n)

\* the value of a decimal literal
RECURSIVE IntOf(_)
IntOf(s) ==
    IF s = "" THEN 0
    ELSE IntOf(Sub(s, 1, Len(s) - 1)) * 10
         + Find("0123456789", Ch(s, Len(s)))

----------------------------------------------------------------------------
(* eval(text, None, labels) of Compiler.parse_opcode, on the fragment of  *)
(* Python expressions the inputs are written in: decimal literals, names,  *)
(* unary and binary + and -, attribute access and a trailing comment.      *)
(* A text outside the fragment evaluates to the error Unmodelled.          *)

NameStart == Letters \cup {"_"}

NameChars == Letters \cup Digits \cup {"_"}

Token(t, s) == [t |-> t, s |-> s]

\* the token at the head of s, s non-empty and not starting with whitespace
\* or #: a literal or name runs as far as its characters go; a literal that
\* runs into a letter, _ or . is a form outside the fragment (1e5, 0x10,
\* 1_0, 1.5); a literal with a leading zero is an error unless it is all
\* zeros
FirstToken(s) ==
    CASE Head(s) \in Digits ->
            LET n == Span(s, Digits)
            IN IF n < Len(s) /\ Ch(s, n + 1) \in NameChars \cup {"."}
               THEN Token("bad", Sub(s, 1, n))
               ELSE IF Head(s) = "0" /\ Span(s, {"0"}) < n
               THEN Token("error", Sub(s, 1, n))
               ELSE Token("int", Sub(s, 1, n))
      [] Head(s) \in NameStart -> Token("name", Sub(s, 1, Span(s, NameChars)))
      [] Head(s) \in {"+", "-", "."} -> Token("op", Head(s))
      [] OTHER -> Token("bad", Head(s))

RECURSIVE Tokens(_)
\* the token tok that s starts with and the tokens of what follows it
TokensFrom(tok, s) == <<tok>> \o Tokens(Sub(s, Len(tok.s) + 1, Len(s)))

\* whitespace separates tokens and a # ends the text
Tokens(s) ==
    IF s = "" \/ StartsWith(s, "#") THEN <<>>
    ELSE IF Head(s) \in Whitespace THEN Tokens(Tail(s))
    ELSE TokensFrom(FirstToken(s), s)

IsAtom(tok) == tok.t \in {"int", "name"}

IsSign(tok) == tok.t = "op" /\ tok.s \in {"+", "-"}

IsDot(tok) == tok.t = "op" /\ tok.s = "."

\* the grammar: signs, then a literal or a name, then attributes, then
\* either the end or a binary + or - and the same again
RECURSIVE WellFormed(_, _)
WellFormed(toks, after) ==
    IF toks = <<>> THEN after
    ELSE IF after
    THEN \/ IsSign(Head(toks)) /\ WellFormed(Tail(toks), FALSE)
         \/ /\ IsDot(Head(toks))
            /\ Len(toks) >= 2
            /\ toks[2].t = "name"
            /\ WellFormed(Tail(Tail(toks)), TRUE)
    ELSE \/ IsSign(Head(toks)) /\ WellFormed(Tail(toks), FALSE)
         \/ IsAtom(Head(toks)) /\ WellFormed(Tail(toks), TRUE)

IntVal(n) == [k |-> "int", n |-> n, path |-> ""]

ObjVal(path) == [k |-> "obj", n |-> 0, path |-> path]

Value(v, rest) == [err |-> "none", v |-> v, rest |-> rest]

Raise(err) == [err |-> err, v |-> IntVal(0), rest |-> <<>>]

\* the names bound at module level in lrc/compiler.py: eval is given no
\* globals and so falls back to those of the module that calls it
ModuleGlobals ==
    {"asyncio", "logging", "re", "sys", "core", "logger",
     "UnrecognizedInstruction", "TerminalStdout", "Compiler"}

\* the integer attributes reachable from the module's name core
IntAttrs ==
    [p \in {"core.Memory.ADDR_IO", "core.Memory.ADDR_REG",
            "core.Memory.ADDR_FLG", "core.Memory.ADDR_PRG",
            "core.Operand.MASK_REF", "core.Operand.MASK_VAL"} |->
        CASE p = "core.Memory.ADDR_IO" -> ADDR_IO
          [] p = "core.Memory.ADDR_REG" -> ADDR_REG
          [] p = "core.Memory.ADDR_FLG" -> ADDR_FLG
          [] p = "core.Memory.ADDR_PRG" -> ADDR_PRG
          [] p = "core.Operand.MASK_REF" -> MASK_REF
          [] p = "core.Operand.MASK_VAL" -> MASK_VAL]

ObjAttrs == {"core.Memory", "core.Operand"}

\* a name is looked up in the locals (the label table), then in the
\* globals, then in builtins, where __debug__ is True
Lookup(table, name) ==
    IF name \in DOMAIN table THEN Value(IntVal(table[name]), <<>>)
    ELSE IF name \in ModuleGlobals THEN Value(ObjVal(name), <<>>)
    ELSE IF name = "__debug__" THEN Value(IntVal(1), <<>>)
    ELSE Raise("NameError")

GetAttr(v, name) ==
    LET path == v.path \o "." \o name
    IN IF v.k = "obj" /\ path \in DOMAIN IntAttrs
       THEN Value(IntVal(IntAttrs[path]), <<>>)
       ELSE IF v.k = "obj" /\ path \in ObjAttrs THEN Value(ObjVal(path), <<>>)
       ELSE Raise("Unmodelled")

RECURSIVE EvalAttrs(_, _)
EvalAttrs(r, toks) ==
    IF r.err # "none" THEN r
    ELSE IF toks # <<>> /\ IsDot(Head(toks))
    THEN EvalAttrs(GetAttr(r.v, toks[2].s), Tail(Tail(toks)))
    ELSE Value(r.v, toks)

\* one operand of a sum: modules and classes have no unary + or -
RECURSIVE EvalOperand(_, _)
EvalOperand(table, toks) ==
    IF IsSign(Head(toks))
    THEN LET r == EvalOperand(table, Tail(toks))
         IN IF r.err # "none" THEN r
            ELSE IF r.v.k # "int" THEN Raise("TypeError")
            ELSE Value(IntVal(IF Head(toks).s = "-" THEN -r.v.n ELSE r.v.n),
                       r.rest)
    ELSE IF Head(toks).t = "int"
    THEN Value(IntVal(IntOf(Head(toks).s)), Tail(toks))
    ELSE EvalAttrs(Lookup(table, Head(toks).s), Tail(toks))

\* the binary operators are applied from left to right, each after both of
\* its operands were evaluated
RECURSIVE EvalSum(_, _)
EvalSum(table, acc) ==
    IF acc.err # "none" \/ acc.rest = <<>> THEN acc
    ELSE LET r == EvalOperand(table, Tail(acc.rest))
         IN IF r.err # "none" THEN r
            ELSE IF acc.v.k # "int" \/ r.v.k # "int" THEN Raise("TypeError")
            ELSE EvalSum(table,
                         Value(IntVal(IF Head(acc.rest).s = "-"
                                      THEN acc.v.n - r.v.n
                                      ELSE acc.v.n + r.v.n), r.rest))

\* a text is compiled before it is evaluated: a syntax error is raised even
\* when a name of the text is unbound
Eval(text, table) ==
    LET toks == Tokens(text)
    IN IF \E i \in 1..Len(toks) : toks[i].t = "bad" THEN Raise("Unmodelled")
       ELSE IF ~WellFormed(toks, FALSE) THEN Raise("SyntaxError")
       ELSE EvalSum(table, EvalOperand(table, toks))

----------------------------------------------------------------------------
(* compiler.Compiler                                                       *)

\* the keys of Compiler._opcodes
OpcodeNames == {Mnemonics[i] : i \in 1..Len(Mnemonics)}

\* the characters of the class [-_0-9a-zA-Z] of _label_pattern
LabelChars == Letters \cup Digits \cup {"-", "_"}

IsComment(line) == line = "" \/ StartsWith(line, "#")

\* _label_pattern.match: a letter, as many characters of the class as there
\* are, and then a colon
IsLabel(line) ==
    /\ line # ""
    /\ Head(line) \in Letters
    /\ Ch(line, Span(Tail(line), LabelChars) + 2) = ":"

IsOpcode(line) ==
    /\ Len(line) >= 3
    /\ Sub(line, 1, 3) \in OpcodeNames
    /\ (Len(line) = 3 \/ Ch(line, 4) = " ")

ParseLabel(line) == Sub(line, 1, Find(line, ":"))

\* the lines that are not comments, each stripped after the test
Prepare(text) ==
    LET kept == SelectSeq(SplitLines(text), LAMBDA line : ~IsComment(line))
    IN [i \in 1..Len(kept) |-> Strip(kept[i])]

\* mutant: a second definition of a label replaces the first
DefinedNever(table, label) == FALSE

\* label in labels
Defined(table, label) == label \in DOMAIN table

\* labels[label] = address
Bind(table, label, address) ==
    [n \in DOMAIN table \cup {label} |->
        IF n = label THEN address ELSE table[n]]

\* mutant: the address of the line after the label
LabelAddressNext(index) == index + 1 + ADDR_PRG

\* index + core.Memory.ADDR_PRG, index counted from 0
LabelAddress(index) == index + ADDR_PRG

RECURSIVE FindLabelsFrom(_, _, _)
FindLabelsFrom(lines, i, table) ==
    IF i > Len(lines) THEN [labels |-> table, err |-> "none"]
    ELSE IF ~IsLabel(lines[i]) THEN FindLabelsFrom(lines, i + 1, table)
    ELSE LET label == ParseLabel(lines[i])
         IN IF Defined(table, label)
            THEN [labels |-> <<>>, err |-> "AssertionError"]
            ELSE FindLabelsFrom(lines, i + 1,
                                Bind(table, label, LabelAddress(i - 1)))

FindLabels(lines) == FindLabelsFrom(lines, 1, <<>>)

\* Compiler.parse_opcode: the instruction as <<ins>>, or the exception of
\* eval or of int() in Opcode.__new__; a third part and the parts after it
\* are not evaluated
ParseOpcode(table, line) ==
    LET mneumonic == Sub(line, 1, 3)
        arguments == Strip(Sub(line, 4, Len(line)))
        parts == Split(arguments, ",")
        lo == IF arguments # "" THEN Eval(parts[1], table)
              ELSE Value(IntVal(0), <<>>)
        hi == IF arguments # "" /\ Len(parts) = 2 THEN Eval(parts[2], table)
              ELSE Value(IntVal(0), <<>>)
    IN IF lo.err # "none" THEN [err |-> lo.err, ins |-> <<>>]
       ELSE IF hi.err # "none" THEN [err |-> hi.err, ins |-> <<>>]
       ELSE IF lo.v.k # "int" \/ hi.v.k # "int"
       THEN [err |-> "TypeError", ins |-> <<>>]
       ELSE [err |-> "none", ins |-> <<OpcodeNew(mneumonic, lo.v.n, hi.v.n)>>]

\* mutant: a name resolves only to the labels defined on earlier lines
CompileLineOnePass(table, lines, i) ==
    IF IsLabel(lines[i])
    THEN [err |-> "none", ins |-> <<OpcodeNew("NUL", 0, 0)>>]
    ELSE IF IsOpcode(lines[i])
    THEN ParseOpcode([n \in {m \in DOMAIN table : table[m] < LabelAddress(i - 1)}
                         |-> table[n]], lines[i])
    ELSE [err |-> "UnrecognizedInstruction", ins |-> <<>>]

\* the body of the loop of Compiler.compile
CompileLine(table, lines, i) ==
    IF IsLabel(lines[i])
    THEN [err |-> "none", ins |-> <<OpcodeNew("NUL", 0, 0)>>]
    ELSE IF IsOpcode(lines[i]) THEN ParseOpcode(table, lines[i])
    ELSE [err |-> "UnrecognizedInstruction", ins |-> <<>>]

\* mutant: the instructions compiled before the failing line are returned
RaisedPartial(done, table, err, line) ==
    [instructions |-> done, labels |-> table, err |-> err,
     arg |-> IF err = "UnrecognizedInstruction" THEN <<line>> ELSE <<>>]

\* an exception leaves compile: no list is returned
Raised(done, table, err, line) ==
    [instructions |-> <<>>, labels |-> table, err |-> err,
     arg |-> IF err = "UnrecognizedInstruction" THEN <<line>> ELSE <<>>]

RECURSIVE CompileFrom(_, _, _, _)
CompileFrom(table, lines, i, done) ==
    IF i > Len(lines)
    THEN [instructions |-> done, labels |-> table, err |-> "none", arg |-> <<>>]
    ELSE LET r == CompileLine(table, lines, i)
         IN IF r.err # "none" THEN Raised(done, table, r.err, lines[i])
            ELSE CompileFrom(table, lines, i + 1, done \o r.ins)

\* Compiler.compile
CompileOf(text) ==
    LET lines == Prepare(text)
        found == FindLabels(lines)
    IN IF found.err # "none" THEN Raised(<<>>, <<>>, found.err, "")
       ELSE CompileFrom(found.labels, lines, 1, <<>>)

----------------------------------------------------------------------------
(* Inputs: program texts made of a few lines.                              *)

\* an instruction line with both operands written as decimal literals
Line(mn, lo, hi) == mn \o " " \o IntText(lo) \o "," \o IntText(hi)

\* the text whose lines are ls, joined by line breaks
RECURSIVE Text(_)
Text(ls) ==
    IF ls = <<>> THEN ""
    ELSE IF Len(ls) = 1 THEN ls[1]
    ELSE ls[1] \o "\n" \o Text(Tail(ls))

TextsOf(pool, n) == { Text(ls) : ls \in UNION { [1..k -> pool] : k \in 0..n } }

Lines ==
    { Line("NUL", 0, 0), Line("HLT", 0, 0), Line("INC", 0, 0),
      Line("LDA", 65, 0), Line("STA", 0, 0), Line("MOV", 0, 33),
      Line("JMP", 33, 0), Line("JMP", 40, 0), Line("DEC", 40, 0),
      Line("MOV", 8191, 4097), Line("LDA", 8192, 0), Line("LDA", 16384, 0),
      Line("HLT", 65536, 0), Line("NUL", 0, -1) }

Programs == TextsOf(Lines, MaxProg)

----------------------------------------------------------------------------
(* The host flow of bin/lrcc.py main and the event loop.                   *)

NoOp == [op |-> "none", index |-> 0, value |-> Zero, err |-> "none", n |-> 0]

Init ==
    /\ pc = "compile"
    /\ program \in Programs
    /\ instructions = <<>>
    /\ labels = <<>>
    /\ errline = <<>>
    /\ ram = <<>>
    /\ ptr = ADDR_PRG
    /\ queue = <<>>
    /\ buf = <<>>
    /\ out = <<>>
    /\ status = "running"
    /\ fault = "none"
    /\ nticks = 0
    /\ acts = <<>>
    /\ wrote0 = <<>>
    /\ straight = TRUE
    /\ writes = <<>>
    /\ last = NoOp
    /\ prev = <<>>

Compile ==
    /\ pc = "compile"
    /\ LET r == CompileOf(program)
       IN /\ instructions' = r.instructions
          /\ labels' = r.labels
          /\ errline' = r.arg
          /\ pc' = IF r.err = "none" THEN "load" ELSE "aborted"
          /\ fault' = r.err
          /\ status' = IF r.err = "none" THEN status ELSE "fault"
    /\ UNCHANGED <<program, ram, ptr, queue, buf, out, nticks, acts, wrote0,
                   straight, writes, last, prev>>

LoadProgram ==
    /\ pc = "load"
    /\ LET r == LoadProgramOf(ram, instructions)
       IN /\ ram' = r.ram
          /\ writes' = writes \o r.wr
          /\ pc' = IF r.err = "none" THEN "start" ELSE "aborted"
          /\ fault' = r.err
          /\ status' = IF r.err = "none" THEN status ELSE "fault"
    /\ UNCHANGED <<program, instructions, labels, errline, ptr, queue, buf,
                   out, nticks, acts, wrote0, straight, last, prev>>

\* main lines 42-47: the device task is created first, then run() creates
\* the tick task and starts the loop
Start ==
    /\ pc = "start"
    /\ queue' = CreateTask(CreateTask(queue, "listen"), "tick")
    /\ pc' = "loop"
    /\ UNCHANGED <<program, instructions, labels, errline, ram, ptr, buf, out,
                   status, fault, nticks, acts, wrote0, straight, writes,
                   last, prev>>

Ready(cb) == pc = "loop" /\ queue # <<>> /\ Head(queue) = cb

Listen ==
    /\ Ready("listen")
    /\ LET r == ListenBody(ram, buf, out, Tail(queue))
       IN /\ ram' = r.ram
          /\ buf' = r.buf
          /\ out' = r.out
          /\ queue' = r.queue
          /\ writes' = writes \o r.wr
    /\ acts' = Append(acts, "poll")
    /\ UNCHANGED <<pc, program, instructions, labels, errline, ptr, status,
                   fault, nticks, wrote0, straight, last, prev>>

FlushCallback ==
    /\ Ready("flush")
    /\ buf' = Flush(buf, out).buf
    /\ out' = Flush(buf, out).out
    /\ queue' = Tail(queue)
    /\ UNCHANGED <<pc, program, instructions, labels, errline, ram, ptr,
                   status, fault, nticks, acts, wrote0, straight, writes,
                   last, prev>>

Tick ==
    /\ Ready("tick")
    /\ nticks < MaxTicks
    /\ LET r == TickBody(ram, ptr)
       IN /\ ram' = r.ram
          /\ ptr' = r.ptr
          /\ writes' = writes \o r.wr
          /\ wrote0' = wrote0 \o PortValues(r.wr)
          /\ straight' = (straight /\ Sequential(ram, ptr, r.wr, Len(instructions)))
          /\ status' = CASE r.err = "none" -> "running"
                         [] r.err = "Terminate" -> "halted"
                         [] OTHER -> "fault"
          /\ fault' = IF r.err \in {"none", "Terminate"} THEN "none" ELSE r.err
          /\ queue' = IF r.err = "none" THEN CreateTask(Tail(queue), "tick")
                      ELSE CreateTask(Tail(queue), "shutdown")
    /\ nticks' = nticks + 1
    /\ acts' = Append(acts, "tick")
    /\ UNCHANGED <<pc, program, instructions, labels, errline, buf, out, last,
                   prev>>

Shutdown ==
    /\ Ready("shutdown")
    /\ queue' = CallSoon(CancelAll(Tail(queue)), "stop")
    /\ UNCHANGED <<pc, program, instructions, labels, errline, ram, ptr, buf,
                   out, status, fault, nticks, acts, wrote0, straight, writes,
                   last, prev>>

Cancelled ==
    /\ Ready("cancelled")
    /\ queue' = Tail(queue)
    /\ UNCHANGED <<pc, program, instructions, labels, errline, ram, ptr, buf,
                   out, status, fault, nticks, acts, wrote0, straight, writes,
                   last, prev>>

Stop ==
    /\ Ready("stop")
    /\ queue' = Tail(queue)
    /\ pc' = "done"
    /\ UNCHANGED <<program, instructions, labels, errline, ram, ptr, buf, out,
                   status, fault, nticks, acts, wrote0, straight, writes,
                   last, prev>>

Next ==
    \/ Compile
    \/ LoadProgram
    \/ Start
    \/ Listen
    \/ FlushCallback
    \/ Tick
    \/ Shutdown
    \/ Cancelled
    \/ Stop

Spec == Init /\ [][Next]_vars

----------------------------------------------------------------------------
(* The Memory object, the instruction set and the device driven directly   *)
(* through their methods, in any order.                                    *)

ApiIndexes == {-1, 0, 1, 34}

ApiValues == {ToBig(0), ToBig(65), <<W16 - 1, W16 - 1>>, <<W16, 0>>, ToBig(-1)}

LoadLines == {Line("NUL", 0, 0), Line("MOV", 0, 33), Line("HLT", 65536, 0)}

LoadPrograms == TextsOf(LoadLines, MaxLoad)

MemInit ==
    /\ pc = "api"
    /\ program = ""
    /\ instructions = <<>>
    /\ labels = <<>>
    /\ errline = <<>>
    /\ ram = <<>>
    /\ ptr = ADDR_PRG
    /\ queue = <<>>
    /\ buf = <<>>
    /\ out = <<>>
    /\ status = "running"
    /\ fault = "none"
    /\ nticks = 0
    /\ acts = <<>>
    /\ wrote0 = <<>>
    /\ straight = TRUE
    /\ writes = <<>>
    /\ last = NoOp
    /\ prev = <<>>

ApiReady == pc = "api" /\ last.n < MaxOps

ApiWrite(index, value) ==
    /\ ApiReady
    /\ LET r == MemWrite(ram, index, value)
       IN /\ ram' = r.ram
          /\ writes' = writes \o r.wr
          /\ last' = [op |-> "write", index |-> index, value |-> value,
                      err |-> r.err, n |-> last.n + 1]
    /\ prev' = ram
    /\ UNCHANGED <<pc, program, instructions, labels, errline, ptr, queue,
                   buf, out, status, fault, nticks, acts, wrote0, straight>>

ApiLoad(lines) ==
    /\ ApiReady
    /\ LET r == LoadProgramOf(ram, CompileOf(lines).instructions)
       IN /\ ram' = r.ram
          /\ writes' = writes \o r.wr
          /\ last' = [op |-> "load", index |-> ADDR_PRG, value |-> Zero,
                      err |-> r.err, n |-> last.n + 1]
    /\ prev' = ram
    /\ UNCHANGED <<pc, program, instructions, labels, errline, ptr, queue,
                   buf, out, status, fault, nticks, acts, wrote0, straight>>

\* the execute method of the instruction a loaded word decodes to
ApiExecute(line) ==
    /\ ApiReady
    /\ InWord(ParseOpcode(<<>>, line).ins[1].value)
    /\ LET r == Execute(Interpret(ParseOpcode(<<>>, line).ins[1].value), ram, ptr)
       IN /\ ram' = r.ram
          /\ ptr' = r.ptr
          /\ writes' = writes \o r.wr
          /\ wrote0' = wrote0 \o PortValues(r.wr)
          /\ straight' = (straight /\ Sequential(ram, ptr, r.wr, Len(instructions)))
          /\ last' = [op |-> "execute", index |-> 0,
                      value |-> ParseOpcode(<<>>, line).ins[1].value,
                      err |-> r.err, n |-> last.n + 1]
    /\ prev' = ram
    /\ UNCHANGED <<pc, program, instructions, labels, errline, queue, buf,
                   out, status, fault, nticks, acts>>

ApiPoll ==
    /\ ApiReady
    /\ LET r == ListenBody(ram, buf, out, queue)
       IN /\ ram' = r.ram
          /\ buf' = r.buf
          /\ out' = r.out
          /\ queue' = r.queue
          /\ writes' = writes \o r.wr
    /\ last' = [op |-> "poll", index |-> ADDR_IO, value |-> Zero,
                err |-> "none", n |-> last.n + 1]
    /\ prev' = ram
    /\ acts' = Append(acts, "poll")
    /\ UNCHANGED <<pc, program, instructions, labels, errline, ptr, status,
                   fault, nticks, wrote0, straight>>

MemNext ==
    \/ \E index \in ApiIndexes, value \in ApiValues : ApiWrite(index, value)
    \/ \E lines \in LoadPrograms : ApiLoad(lines)
    \/ \E line \in Lines : ApiExecute(line)
    \/ ApiPoll

MemSpec == MemInit /\ [][MemNext]_vars

----------------------------------------------------------------------------
(* The encoder alone: one instruction line of every mnemonic, with operand *)
(* values around the field boundaries, compiled.                           *)

EncVals == {-1, 0, 1, 4095, 4096, 8191, 8192, 16383, 16384, 65536}

EncLines ==
    { Line(Mnemonics[k], lo, hi) : k \in 1..Len(Mnemonics),
                                   lo \in EncVals, hi \in EncVals }

EncInit ==
    /\ pc = "compile"
    /\ program \in EncLines
    /\ instructions = <<>>
    /\ labels = <<>>
    /\ errline = <<>>
    /\ ram = <<>>
    /\ ptr = ADDR_PRG
    /\ queue = <<>>
    /\ buf = <<>>
    /\ out = <<>>
    /\ status = "running"
    /\ fault = "none"
    /\ nticks = 0
    /\ acts = <<>>
    /\ wrote0 = <<>>
    /\ straight = TRUE
    /\ writes = <<>>
    /\ last = NoOp
    /\ prev = <<>>

EncSpec == EncInit /\ [][Compile]_vars

----------------------------------------------------------------------------
(* The host flow on program texts as they are written: label lines, blank  *)
(* and comment lines, lines that are no instruction, and operands that are *)
(* names.                                                                  *)

AsmLines ==
    { "loop:", "loop: INC 40", "Loop:", "JMP loop", "JMP nope",
      "LDA core.Memory.ADDR_PRG", "INC 0", "HLT", "XYZ 1",
      "", " ", "# c", "  # c" }

AsmPrograms == TextsOf(AsmLines, MaxProg)

AsmInit ==
    /\ pc = "compile"
    /\ program \in AsmPrograms
    /\ instructions = <<>>
    /\ labels = <<>>
    /\ errline = <<>>
    /\ ram = <<>>
    /\ ptr = ADDR_PRG
    /\ queue = <<>>
    /\ buf = <<>>
    /\ out = <<>>
    /\ status = "running"
    /\ fault = "none"
    /\ nticks = 0
    /\ acts = <<>>
    /\ wrote0 = <<>>
    /\ straight = TRUE
    /\ writes = <<>>
    /\ last = NoOp
    /\ prev = <<>>

AsmSpec == AsmInit /\ [][Next]_vars

----------------------------------------------------------------------------
(* The arithmetic instructions executed on a memory that already holds     *)
(* words: small ones, the largest 16-bit value, 2^16 and the largest word. *)

ExecWords ==
    {ToBig(1), ToBig(5), ToBig(W16 - 1), <<1, 0>>, <<W16 - 1, W16 - 1>>}

ExecCells == {40, 41}

ExecMemories == UNION { [S -> ExecWords] : S \in SUBSET ExecCells }

ExecLines ==
    { "ADD 40,41", "ADD 41,40", "ADD 40,40", "ADD 42,40", "SUB 40,5",
      "SUB 40,41", "SUB 41,1", "SUB 42,1", "INC 40", "DEC 40", "INC 42",
      "DEC 42" }

ExecInit ==
    /\ pc = "api"
    /\ program = ""
    /\ instructions = <<>>
    /\ labels = <<>>
    /\ errline = <<>>
    /\ ram \in ExecMemories
    /\ ptr = ADDR_PRG
    /\ queue = <<>>
    /\ buf = <<>>
    /\ out = <<>>
    /\ status = "running"
    /\ fault = "none"
    /\ nticks = 0
    /\ acts = <<>>
    /\ wrote0 = <<>>
    /\ straight = TRUE
    /\ writes = <<>>
    /\ last = NoOp
    /\ prev = <<>>

ExecNext == \E line \in ExecLines : ApiExecute(line)

ExecSpec == ExecInit /\ [][ExecNext]_vars

----------------------------------------------------------------------------
(* The host flow on programs that compare and branch.  The cell at 40 is   *)
(* never written and reads 0, the cell at 33 holds the first instruction,  *)
(* INC 25 changes the flag without a comparison and INC 0 gives the device *)
(* something to print.                                                     *)

BranchLines ==
    { "CMP 40,33", "CMP 33,40", "CMP 40,40", "BRB 35", "BRA 35", "BRB 33",
      "BRA 33", "HLT", "INC 25", "INC 0" }

BranchPrograms == TextsOf(BranchLines, MaxProg)

BranchInit ==
    /\ pc = "compile"
    /\ program \in BranchPrograms
    /\ instructions = <<>>
    /\ labels = <<>>
    /\ errline = <<>>
    /\ ram = <<>>
    /\ ptr = ADDR_PRG
    /\ queue = <<>>
    /\ buf = <<>>
    /\ out = <<>>
    /\ status = "running"
    /\ fault = "none"
    /\ nticks = 0
    /\ acts = <<>>
    /\ wrote0 = <<>>
    /\ straight = TRUE
    /\ writes = <<>>
    /\ last = NoOp
    /\ prev = <<>>

BranchSpec == BranchInit /\ [][Next]_vars

----------------------------------------------------------------------------
(* The host flow on programs that jump: to the device cell, to the program *)
(* base, to the cell at length() and beyond it.  MOV 0,33 sends the device *)
(* a word that chr rejects.                                                *)

JumpLines ==
    { "JMP 0", "JMP 33", "JMP 35", "JMP 36", "BRA 0", "INC 0", "INC 40",
      "DEC 40", "MOV 0,33", "NUL", "HLT" }

JumpPrograms == TextsOf(JumpLines, MaxProg)

JumpInit ==
    /\ pc = "compile"
    /\ program \in JumpPrograms
    /\ instructions = <<>>
    /\ labels = <<>>
    /\ errline = <<>>
    /\ ram = <<>>
    /\ ptr = ADDR_PRG
    /\ queue = <<>>
    /\ buf = <<>>
    /\ out = <<>>
    /\ status = "running"
    /\ fault = "none"
    /\ nticks = 0
    /\ acts = <<>>
    /\ wrote0 = <<>>
    /\ straight = TRUE
    /\ writes = <<>>
    /\ last = NoOp
    /\ prev = <<>>

JumpSpec == JumpInit /\ [][Next]_vars

----------------------------------------------------------------------------
(* The host flow on programs that fault at run time: HLT lines whose lo    *)
(* operand carries into the opcode bits and makes them 13, 14 or 15, a     *)
(* line that encodes to the largest word, 2^32 - 1, and INC and DEC on     *)
(* cells at their bounds.                                                  *)

FaultLines ==
    { "HLT 16384", "HLT 32768", "HLT 49152", "HLT 65535,16383", "INC 34",
      "DEC 40", "INC 0", "NUL", "HLT" }

FaultPrograms == TextsOf(FaultLines, MaxProg)

FaultInit ==
    /\ pc = "compile"
    /\ program \in FaultPrograms
    /\ instructions = <<>>
    /\ labels = <<>>
    /\ errline = <<>>
    /\ ram = <<>>
    /\ ptr = ADDR_PRG
    /\ queue = <<>>
    /\ buf = <<>>
    /\ out = <<>>
    /\ status = "running"
    /\ fault = "none"
    /\ nticks = 0
    /\ acts = <<>>
    /\ wrote0 = <<>>
    /\ straight = TRUE
    /\ writes = <<>>
    /\ last = NoOp
    /\ prev = <<>>

FaultSpec == FaultInit /\ [][Next]_vars

----------------------------------------------------------------------------
(* Programs without HLT, JMP, BRA and BRB, some of which write to their    *)
(* own cells: 'DEC 34' before 'MOV 0,0' turns the MOV into a JMP.  'x' is  *)
(* no instruction, and 'HLT' is there for comparison.                      *)

StraightLines ==
    { "NUL", "INC 0", "INC 40", "INC 34", "DEC 34", "DEC 35", "MOV 0,0",
      "HLT", "x" }

StraightPrograms == TextsOf(StraightLines, MaxProg)

StraightInit ==
    /\ pc = "compile"
    /\ program \in StraightPrograms
    /\ instructions = <<>>
    /\ labels = <<>>
    /\ errline = <<>>
    /\ ram = <<>>
    /\ ptr = ADDR_PRG
    /\ queue = <<>>
    /\ buf = <<>>
    /\ out = <<>>
    /\ status = "running"
    /\ fault = "none"
    /\ nticks = 0
    /\ acts = <<>>
    /\ wrote0 = <<>>
    /\ straight = TRUE
    /\ writes = <<>>
    /\ last = NoOp
    /\ prev = <<>>

StraightSpec == StraightInit /\ [][Next]_vars

----------------------------------------------------------------------------
(* Programs that write to address 0 and read it in the following ticks,    *)
(* in sequence and in a loop.  'x' is no instruction.                      *)

PortLines ==
    { "INC 0", "DEC 0", "MOV 40,0", "MOV 0,33", "ADD 40,0", "CMP 0,40",
      "SUB 0,1", "INC 40", "JMP 33", "HLT", "x" }

PortPrograms == TextsOf(PortLines, MaxProg)

PortInit ==
    /\ pc = "compile"
    /\ program \in PortPrograms
    /\ instructions = <<>>
    /\ labels = <<>>
    /\ errline = <<>>
    /\ ram = <<>>
    /\ ptr = ADDR_PRG
    /\ queue = <<>>
    /\ buf = <<>>
    /\ out = <<>>
    /\ status = "running"
    /\ fault = "none"
    /\ nticks = 0
    /\ acts = <<>>
    /\ wrote0 = <<>>
    /\ straight = TRUE
    /\ writes = <<>>
    /\ last = NoOp
    /\ prev = <<>>

PortSpec == PortInit /\ [][Next]_vars

----------------------------------------------------------------------------
(* Programs without JMP, BRA and BRB that write to their own cells and to  *)
(* the highest address an operand can name: 'DEC 35' turns the 'MOV 0,0'   *)
(* at 35 into JMP 8191, and 'MOV 8191,35' copies it to 8191.  'x' is no    *)
(* instruction.                                                            *)

SelfLines ==
    { "DEC 35", "MOV 8191,35", "MOV 0,0", "INC 34", "INC 8191", "INC 0",
      "NUL", "HLT", "x" }

SelfPrograms == TextsOf(SelfLines, MaxProg)

SelfInit ==
    /\ pc = "compile"
    /\ program \in SelfPrograms
    /\ instructions = <<>>
    /\ labels = <<>>
    /\ errline = <<>>
    /\ ram = <<>>
    /\ ptr = ADDR_PRG
    /\ queue = <<>>
    /\ buf = <<>>
    /\ out = <<>>
    /\ status = "running"
    /\ fault = "none"
    /\ nticks = 0
    /\ acts = <<>>
    /\ wrote0 = <<>>
    /\ straight = TRUE
    /\ writes = <<>>
    /\ last = NoOp
    /\ prev = <<>>

SelfSpec == SelfInit /\ [][Next]_vars

----------------------------------------------------------------------------
(* The instructions that take an operand, executed with and without the    *)
(* reference bit (4096) in their operand fields, on a memory whose cells   *)
(* hold addresses.                                                         *)

OneOperand == {"STA", "LDA", "INC", "DEC", "JMP", "BRA", "BRB"}

TwoOperands == {"ADD", "SUB", "MOV", "CMP"}

OperandLines ==
    { Line(mn, lo, 0) : mn \in OneOperand, lo \in {40, MASK_REF + 40} }
        \cup { Line(mn, lo, hi) : mn \in TwoOperands, lo \in {40, MASK_REF + 40},
                                  hi \in {41, MASK_REF + 41} }
        \cup { Line("STA", 8191, 0), Line("MOV", 40, 8191) }

\* each cell holds the address of another one
OperandMemories ==
    { <<>>,
      [a \in {40, 41, MASK_REF + 40, MASK_REF + 41} |->
          CASE a = 40 -> ToBig(41)
            [] a = 41 -> ToBig(MASK_REF + 40)
            [] a = MASK_REF + 40 -> ToBig(40)
            [] a = MASK_REF + 41 -> ToBig(41)] }

OperandInit ==
    /\ pc = "api"
    /\ program = ""
    /\ instructions = <<>>
    /\ labels = <<>>
    /\ errline = <<>>
    /\ ram \in OperandMemories
    /\ ptr = ADDR_PRG
    /\ queue = <<>>
    /\ buf = <<>>
    /\ out = <<>>
    /\ status = "running"
    /\ fault = "none"
    /\ nticks = 0
    /\ acts = <<>>
    /\ wrote0 = <<>>
    /\ straight = TRUE
    /\ writes = <<>>
    /\ last = NoOp
    /\ prev = <<>>

OperandNext == \E line \in OperandLines : ApiExecute(line)

OperandSpec == OperandInit /\ [][OperandNext]_vars

----------------------------------------------------------------------------
(* Properties.                                                             *)

Count(q, cb) == Cardinality({i \in 1..Len(q) : q[i] = cb})

IsPrefix(a, b) == Len(a) <= Len(b) /\ SubSeq(b, 1, Len(a)) = a

\* C1: started as the host does, the activations alternate, the first one
\* being a device poll, for as long as the machine has neither halted nor
\* faulted: poll, tick, poll, tick, ...
C1_Alternation ==
    status = "running" =>
        \A i \in 1..Len(acts) : acts[i] = IF i % 2 = 1 THEN "poll" ELSE "tick"

\* C1 witness: a run still going after three polls and two ticks
C1_Witness == status = "running" /\ Len(acts) >= 5

\* C2: the characters emitted are exactly the nonzero values instructions
\* wrote to address 0, in order, each once: what is emitted is always a
\* prefix of what was written, and when the run has stopped it is all of it.
C2_Echo == IsPrefix(out, wrote0) /\ (pc = "done" => out = wrote0)

\* C3: a device poll emits the nonzero value v of address 0 (nothing when it
\* holds 0), leaves address 0 at 0, changes no other cell and not ptr, and
\* re-enqueues itself exactly once.
C3_PollEffect ==
    [][Ready("listen") =>
        /\ out' = IF MemRead(ram, ADDR_IO) # Zero
                  THEN Append(out, MemRead(ram, ADDR_IO)) ELSE out
        /\ MemRead(ram', ADDR_IO) = Zero
        /\ \A a \in (DOMAIN ram \cup DOMAIN ram') \ {ADDR_IO} :
               MemRead(ram', a) = MemRead(ram, a)
        /\ ptr' = ptr
        /\ Count(queue', "listen") = Count(Tail(queue), "listen") + 1]_vars

\* what is left to run once the machine has halted: a listen queued ahead of
\* shutdown still polls and re-enqueues itself behind it, where shutdown
\* cancels it
RECURSIVE HaltRank(_, _)
HaltRank(q, seen) ==
    IF q = <<>> THEN 0
    ELSE HaltRank(Tail(q), seen \/ Head(q) = "shutdown")
         + (CASE Head(q) = "shutdown" -> 3
              [] Head(q) = "listen" /\ ~seen -> 4
              [] OTHER -> 1)

\* C4: a tick that fetches HLT halts the machine with ptr still at the HLT
\* and memory untouched, raising no fault and scheduling no tick; from then
\* on there is no tick, ptr stays, only the device may change memory, and
\* the run loop stops: until it has stopped a callback is ready, the stop is
\* on its way, and every step brings it nearer.
C4_Halt ==
    [][/\ (Ready("tick") /\ ptr >= 0
             /\ InsOf(MemRead(ram, ptr)) = OPCODE("HLT")) =>
            /\ status' = "halted"
            /\ fault' = "none"
            /\ ptr' = ptr
            /\ ram' = ram
            /\ Count(queue', "tick") = 0
            /\ Count(queue', "shutdown") = 1
       /\ status = "halted" =>
            /\ status' = "halted"
            /\ fault' = "none"
            /\ ptr' = ptr
            /\ nticks' = nticks
            /\ Count(queue', "tick") = 0
            /\ (ram' # ram => Ready("listen"))
            /\ HaltRank(queue', FALSE) < HaltRank(queue, FALSE)
            /\ \/ pc' = "done" /\ queue' = <<>>
               \/ /\ pc' = "loop"
                  /\ Count(queue', "shutdown") + Count(queue', "stop") = 1]_vars

\* C4 witness: a run that executed HLT as its second or later tick and has
\* stopped
C4_Witness == status = "halted" /\ pc = "done" /\ nticks >= 2

\* the program was loaded and its last instruction is an HLT: an HLT line
\* whose word has the HLT opcode in bits 31-28
EndsInHLT ==
    /\ pc \in {"loop", "done"}
    /\ instructions # <<>>
    /\ instructions[Len(instructions)].mneumonic = "HLT"
    /\ InsOf(instructions[Len(instructions)].value) = OPCODE("HLT")

\* C5 as stated: a program whose last instruction is HLT never raises
\* SegmentationFault.
C5_NoSegFault == EndsInHLT => fault # "SegmentationFault"

\* C5 amended: for a program whose last instruction is HLT, as long as no
\* tick has executed a JMP, BRA or BRB or written a cell of the program, no
\* SegmentationFault is raised, ptr has advanced by one per tick, and the
\* run is over after at most as many ticks as the program has instructions.
C5_SequentialHalts ==
    (EndsInHLT /\ straight) =>
        /\ fault # "SegmentationFault"
        /\ nticks <= Len(instructions)
        /\ status = "running" =>
              ptr = ADDR_PRG + nticks /\ nticks < Len(instructions)

\* C5 witness: a program ending in HLT that ran in sequence to its HLT
C5_Witness ==
    EndsInHLT /\ straight /\ pc = "done" /\ status = "halted" /\ nticks >= 2

\* C6: with no HLT executed and no execute or decode fault, the run stops
\* only through SegmentationFault; SegmentationFault is raised exactly when
\* ptr exceeds length() after a tick's execute-and-increment step, and while
\* ptr is at most length() the next tick is scheduled.
C6_SegFault ==
    /\ fault = "SegmentationFault" => ptr > MemLen(ram)
    /\ (status = "running" /\ nticks > 0) => ptr <= MemLen(ram)
    /\ (status = "running" /\ pc = "loop") => Count(queue, "tick") = 1
    /\ (pc = "done" /\ status # "halted"
          /\ fault \notin {"AssertionError", "KeyError"}) =>
           fault = "SegmentationFault"

\* C6 witness: a run that reached ptr = length(), ran the tick there and
\* stopped on SegmentationFault
C6_Witness ==
    pc = "done" /\ fault = "SegmentationFault" /\ nticks >= 3
        /\ ptr = MemLen(ram) + 1

RoundTrip(ins) ==
    /\ InWord(ins.value)
    /\ InsOf(ins.value) \in OpcodeKeys
    /\ Interpret(ins.value).mneumonic = ins.mneumonic
    /\ Interpret(ins.value).lo = ins.lo
    /\ Interpret(ins.value).hi = ins.hi

\* C7 as stated: decoding the value of an assembled instruction whose
\* operands fit 14 bits gives back its mnemonic, lo and hi.
C7_RoundTrip14 ==
    \A i \in 1..Len(instructions) :
        (instructions[i].lo \in 0..16383 /\ instructions[i].hi \in 0..16383)
            => RoundTrip(instructions[i])

\* C7 amended: decoding the value of an assembled instruction whose
\* operands fit the 13 bits of an Operand (0 <= lo, hi < 8192) gives back
\* its mnemonic, lo and hi.
C7_RoundTrip13 ==
    \A i \in 1..Len(instructions) :
        (instructions[i].lo \in 0..8191 /\ instructions[i].hi \in 0..8191)
            => RoundTrip(instructions[i])

\* C7 witness: an assembled instruction with the reference bit set in both
\* operands
C7_Witness ==
    \E i \in 1..Len(instructions) :
        /\ instructions[i].mneumonic = "HLT"
        /\ instructions[i].lo = 8191
        /\ instructions[i].hi = 4096

\* C8: the value of every assembled instruction is a word whose bits 31-28
\* are the opcode of its mnemonic, whose bits 27-14 depend on lo alone and
\* whose bits 13-0 depend on hi alone.
C8_Fields ==
    \A i \in 1..Len(instructions) :
        /\ InWord(instructions[i].value)
        /\ InsOf(instructions[i].value) = OPCODE(instructions[i].mneumonic)
        /\ \A j \in 1..Len(instructions) :
              /\ instructions[i].lo = instructions[j].lo =>
                    LoField(instructions[i].value) = LoField(instructions[j].value)
              /\ instructions[i].hi = instructions[j].hi =>
                    HiField(instructions[i].value) = HiField(instructions[j].value)

\* the successful writes to index a, as positions of the log
WritesTo(a) == {i \in 1..Len(writes) : writes[i][1] = a}

Written == {writes[i][1] : i \in 1..Len(writes)}

LastWritten(a) ==
    IF WritesTo(a) = {} THEN Zero ELSE writes[Max(WritesTo(a))][2]

\* C9: every cell holds a word, at a non-negative index; a write of a value
\* outside [0, 2^32) or to a negative index fails and changes no cell.
C9_WordRange ==
    /\ \A a \in DOMAIN ram : a >= 0 /\ InWord(ram[a])
    /\ (last.op = "write" /\ (last.index < 0 \/ ~InWord(last.value))) =>
           last.err = "AssertionError" /\ ram = prev

\* C9 witness: a write of 2^32 attempted on a memory that holds cells
C9_Witness ==
    /\ last.op = "write"
    /\ last.value = <<W16, 0>>
    /\ last.index = 0
    /\ ram # <<>>

\* C10: read(a) is the value of the most recent write to a, or 0; length()
\* is the highest written index plus 1, or 0; iteration yields read(0) ..
\* read(length()-1).
C10_ReadLastWrite ==
    /\ \A a \in DOMAIN ram \cup Written \cup 0..(ADDR_PRG + MaxLoad + 1) :
          MemRead(ram, a) = LastWritten(a)
    /\ MemLen(ram) = IF Written = {} THEN 0 ELSE Max(Written) + 1
    /\ MemIter(ram) =
           [i \in 1..(IF Written = {} THEN 0 ELSE Max(Written) + 1) |->
                LastWritten(i - 1)]

\* C10 witness: an index written twice with different values, a hole below
\* the highest index, and 0 written at the highest index
C10_Witness ==
    /\ Len(writes) >= 2
    /\ \E i, j \in 1..Len(writes) :
          i < j /\ writes[i][1] = writes[j][1] /\ writes[i][2] # writes[j][2]
    /\ \E a \in 0..MemLen(ram) : a \notin Written /\ a < MemLen(ram)
    /\ \E i \in 1..Len(writes) : writes[i][2] = Zero /\ writes[i][1] = Max(Written)

----------------------------------------------------------------------------
(* Properties of the assembler.                                            *)

\* the filtered lines of the program text
Filtered == Prepare(program)

LabelLines == {i \in 1..Len(Filtered) : IsLabel(Filtered[i])}

LabelNames == {ParseLabel(Filtered[i]) : i \in LabelLines}

\* compile has returned a list
Assembled == pc # "compile" /\ (pc = "aborted" => instructions # <<>>)

\* compile has raised: no list, no word in memory, no tick
AssemblyFailed ==
    /\ pc = "aborted"
    /\ instructions = <<>>
    /\ ram = <<>>
    /\ writes = <<>>
    /\ nticks = 0
    /\ acts = <<>>

\* C11: in a program that assembles the label table maps every label to 33
\* plus the index of its definition line among the filtered lines and holds
\* nothing else, there is one instruction per filtered line, NUL for a
\* label line, and when load_program has returned the cell at 33 + i holds
\* the value of the instruction of filtered line i, which is the NUL
\* encoding at the address of every label.
C11_LabelAddresses ==
    Assembled =>
        /\ Len(instructions) = Len(Filtered)
        /\ DOMAIN labels = LabelNames
        /\ \A i \in LabelLines :
              /\ labels[ParseLabel(Filtered[i])] = ADDR_PRG + (i - 1)
              /\ instructions[i].mneumonic = "NUL"
              /\ instructions[i].value = Zero
        /\ pc = "start" =>
              /\ \A i \in 1..Len(Filtered) :
                    /\ ADDR_PRG + (i - 1) \in DOMAIN ram
                    /\ ram[ADDR_PRG + (i - 1)] = instructions[i].value
              /\ \A n \in DOMAIN labels : ram[labels[n]] = Zero

\* C11 witness: a loaded program with a comment line above an instruction
\* above a label, the label being at 34
C11_Witness ==
    /\ pc = "start"
    /\ Len(SplitLines(program)) > Len(Filtered)
    /\ \E n \in DOMAIN labels : labels[n] = ADDR_PRG + 1
    /\ ~IsLabel(Filtered[1])

\* the two-line program of the label example
LoopProgram == "loop: INC 40\nJMP loop"

\* C12: of the program "loop: INC 40", "JMP loop" the JMP is assembled with
\* lo = 33, the address of the loop: line, the run neither halts nor faults,
\* and the cell at 40 has grown by 1 on every pass through the loop: after
\* n ticks, the first of each pass being the one at 33, it holds
\* (n + 1) \div 2.
C12_LoopIncrements ==
    (program = LoopProgram /\ pc # "compile") =>
        /\ Len(instructions) = 2
        /\ instructions[2].mneumonic = "JMP"
        /\ instructions[2].lo = ADDR_PRG
        /\ status = "running"
        /\ pc # "done"
        /\ MemRead(ram, 40) = ToBig((nticks + 1) \div 2)

\* a blank line or a comment line: nothing but spaces, or # as the first
\* character that is no space
Ignorable(line) == Strip(line) = "" \/ StartsWith(Strip(line), "#")

\* the program text without its blank and comment lines
Significant == Text(SelectSeq(SplitLines(program), LAMBDA l : ~Ignorable(l)))

\* C13: blank lines and comment lines, indented ones included, are ignored:
\* the program assembles exactly if the text without them does, and to the
\* same instruction list and the same label addresses.
C13_IgnoredLines ==
    pc # "compile" =>
        LET r == CompileOf(Significant)
        IN /\ Assembled <=> r.err = "none"
           /\ Assembled => (instructions = r.instructions /\ labels = r.labels)

\* the filtered lines that are neither a label line nor an instruction line
BadLines ==
    {i \in 1..Len(Filtered) : ~IsLabel(Filtered[i]) /\ ~IsOpcode(Filtered[i])}

\* a label name is defined on two lines
DuplicateLabels ==
    \E i, j \in LabelLines :
        i < j /\ ParseLabel(Filtered[i]) = ParseLabel(Filtered[j])

\* an instruction line above line i has an operand that does not evaluate
OperandFailsAbove(i) ==
    \E j \in 1..(i - 1) :
        /\ ~IsLabel(Filtered[j])
        /\ IsOpcode(Filtered[j])
        /\ ParseOpcode(FindLabels(Filtered).labels, Filtered[j]).err # "none"

\* C14 as stated: a program with a filtered line that is neither a label
\* nor an instruction fails with UnrecognizedInstruction carrying such a
\* line; no list is returned, no word loaded, no tick executed.
C14_Unrecognized ==
    (pc # "compile" /\ BadLines # {}) =>
        /\ AssemblyFailed
        /\ fault = "UnrecognizedInstruction"
        /\ \E i \in BadLines : errline = <<Filtered[i]>>

\* C14 amended: such a program always fails to assemble, with no list, no
\* word loaded and no tick; the exception is AssertionError when a label is
\* defined twice, the evaluation error of the first instruction line whose
\* operand does not evaluate when that line is above the first unrecognized
\* one, and otherwise UnrecognizedInstruction carrying the first
\* unrecognized line.
C14_FirstUnrecognized ==
    (pc # "compile" /\ BadLines # {}) =>
        /\ AssemblyFailed
        /\ IF DuplicateLabels
           THEN fault = "AssertionError" /\ errline = <<>>
           ELSE IF OperandFailsAbove(Min(BadLines))
           THEN /\ fault \in {"NameError", "SyntaxError", "TypeError"}
                /\ errline = <<>>
           ELSE /\ fault = "UnrecognizedInstruction"
                /\ errline = <<Filtered[Min(BadLines)]>>

\* C14 witness: assembly has failed on the line XYZ 1, the third filtered
\* line, below two lines that assemble
C14_Witness ==
    /\ AssemblyFailed
    /\ fault = "UnrecognizedInstruction"
    /\ errline = <<"XYZ 1">>
    /\ BadLines = {3}
    /\ ~DuplicateLabels

\* C15: a program that defines a label name on two lines fails to assemble,
\* with no list, no word loaded and no tick; in a program that assembles
\* the label lines define pairwise distinct names, "loop" and "Loop" being
\* two names, and distinct labels have distinct addresses.
C15_DistinctLabels ==
    pc # "compile" =>
        /\ DuplicateLabels => (AssemblyFailed /\ fault = "AssertionError")
        /\ Assembled =>
              /\ \A i, j \in LabelLines :
                    i # j => ParseLabel(Filtered[i]) # ParseLabel(Filtered[j])
              /\ \A n, m \in DOMAIN labels : n # m => labels[n] # labels[m]
              /\ Cardinality(DOMAIN labels) = Cardinality(LabelLines)

\* C15 witness: assembly has failed on the second definition of loop, below
\* an instruction that assembles
C15_Witness ==
    /\ AssemblyFailed
    /\ fault = "AssertionError"
    /\ DuplicateLabels
    /\ BadLines = {}
    /\ \E i \in 1..Len(Filtered) : Filtered[i] = "INC 0"

\* loop and Loop are two labels of one program that assembles
CaseSensitiveLabels ==
    /\ Assembled
    /\ DOMAIN labels = {"loop", "Loop"}

\* the instruction lines among the filtered lines
OpcodeLines ==
    {i \in 1..Len(Filtered) : ~IsLabel(Filtered[i]) /\ IsOpcode(Filtered[i])}

\* the operand text of an instruction line
Arguments(i) == Strip(Sub(Filtered[i], 4, Len(Filtered[i])))

\* the instruction lines whose one operand is the name of a label
ReferenceLines == {i \in OpcodeLines : Arguments(i) \in LabelNames}

\* the label line that defines name n
DefinitionLine(n) == CHOOSE d \in LabelLines : ParseLabel(Filtered[d]) = n

\* every line is a label or an instruction, no label is defined twice, and
\* every operand is the name of a label or evaluates without the labels
Resolvable ==
    /\ BadLines = {}
    /\ ~DuplicateLabels
    /\ \A i \in OpcodeLines \ ReferenceLines :
          ParseOpcode(<<>>, Filtered[i]).err = "none"

\* C16: an operand that is the name of a label is assembled to the address
\* of the label, 33 plus the index of its definition line, whether the
\* definition is above or below the referencing line; a program whose names
\* are all labels assembles wherever the definitions are.  Stated of the
\* state compile leaves: no later step changes the list.
C16_ForwardAndBackward ==
    pc \in {"load", "aborted"} =>
        /\ Resolvable => Assembled
        /\ Assembled =>
              \A i \in ReferenceLines :
                  /\ instructions[i].lo
                        = ADDR_PRG + (DefinitionLine(Arguments(i)) - 1)
                  /\ instructions[i].hi = 0
                  /\ instructions[i].mneumonic = Sub(Filtered[i], 1, 3)

\* C16 witness: loop is referenced above and below its definition, and both
\* operands are 34
C16_Witness ==
    /\ Assembled
    /\ \E i, j \in ReferenceLines :
          /\ Arguments(i) = "loop"
          /\ Arguments(j) = "loop"
          /\ i < DefinitionLine("loop")
          /\ DefinitionLine("loop") < j
          /\ instructions[i].lo = ADDR_PRG + 1
          /\ instructions[j].lo = ADDR_PRG + 1

\* the instruction lines whose operand text starts with a name that no
\* label line of the program defines
ForeignLines ==
    {i \in OpcodeLines :
        LET toks == Tokens(Arguments(i))
        IN /\ toks # <<>>
           /\ Head(toks).t = "name"
           /\ Head(toks).s \notin LabelNames}

\* C17: a program with an operand that references a name which is no label
\* of the program does not assemble: no list is returned, nothing is loaded
\* or executed, and the exception is an evaluation error unless a line that
\* is no instruction or a label defined twice fails the assembly first.
C17_UndefinedName ==
    (pc \in {"load", "aborted"} /\ ForeignLines # {}) =>
        /\ AssemblyFailed
        /\ (BadLines = {} /\ ~DuplicateLabels) =>
              fault \in {"NameError", "SyntaxError", "TypeError"}

----------------------------------------------------------------------------
(* Properties of the arithmetic instructions.                              *)

\* the instruction whose execute method was the last operation
Executed == Interpret(last.value)

ExecutedIs(mn) == last.op = "execute" /\ Executed.mneumonic = mn

\* every cell but the one at index reads as it did before the operation,
\* and no other cell was created
OnlyChanged(index) ==
    /\ DOMAIN ram = DOMAIN prev \cup {index}
    /\ \A a \in DOMAIN ram \ {index} : ram[a] = prev[a]

\* the low 16 bits of the sum of a word and an integer
Mod16(a, n) == <<0, BigAdd(a, ToBig(n))[2]>>

\* C18: ADD lo,hi leaves (mem[lo] + mem[hi]) mod 2^16 in mem[lo] and SUB
\* lo,hi leaves (mem[lo] - hi) mod 2^16 there, hi being the number written
\* in the instruction; whatever the cells held, the result is below 2^16,
\* nothing is raised, and no other cell and not ptr has changed.
C18_AddSubWrap ==
    (ExecutedIs("ADD") \/ ExecutedIs("SUB")) =>
        /\ last.err = "none"
        /\ ram[Executed.lo]
              = IF ExecutedIs("ADD")
                THEN <<0, BigAdd(MemRead(prev, Executed.lo),
                                 MemRead(prev, Executed.hi))[2]>>
                ELSE Mod16(MemRead(prev, Executed.lo), -Executed.hi)
        /\ ram[Executed.lo][1] = 0
        /\ ram[Executed.lo][2] \in 0..(W16 - 1)
        /\ OnlyChanged(Executed.lo)
        /\ ptr = ADDR_PRG

\* C18 witness: SUB 40,5 on a cell holding 1 has left 65532, and ADD 40,40
\* after it has left 65528
C18_Witness ==
    /\ ExecutedIs("ADD")
    /\ Executed.lo = Executed.hi
    /\ MemRead(prev, 40) = ToBig(W16 - 4)
    /\ writes = <<<<40, ToBig(W16 - 4)>>, <<40, ToBig(W16 - 8)>>>>

\* the largest word, 2^32 - 1
MaxWord == <<W16 - 1, W16 - 1>>

\* the step executes DEC addr and the operation before it was INC addr;
\* prev is then the memory before the INC
IncThenDec ==
    /\ ExecutedIs("INC")
    /\ last'.op = "execute"
    /\ Interpret(last'.value).mneumonic = "DEC"
    /\ Interpret(last'.value).lo = Executed.lo

\* C19 as stated: whatever word the cell at addr holds, after INC addr and
\* then DEC addr it holds that word again.
C19_IncDec ==
    [][IncThenDec =>
          MemRead(ram', Executed.lo) = MemRead(prev, Executed.lo)]_vars

\* C19 amended: when the cell holds less than 2^32 - 1, INC addr and then
\* DEC addr both succeed, the cell holding one more in between and its old
\* word afterwards; when it holds 2^32 - 1, INC raises AssertionError and
\* writes nothing, and the DEC leaves 2^32 - 2.
C19_IncDecBelowMax ==
    [][IncThenDec =>
          IF MemRead(prev, Executed.lo) # MaxWord
          THEN /\ last.err = "none"
               /\ ram[Executed.lo] = BigAdd(MemRead(prev, Executed.lo), ToBig(1))
               /\ last'.err = "none"
               /\ ram'[Executed.lo] = MemRead(prev, Executed.lo)
          ELSE /\ last.err = "AssertionError"
               /\ ram = prev
               /\ last'.err = "none"
               /\ ram'[Executed.lo] = <<W16 - 1, W16 - 2>>]_vars

\* C19 witness: INC 40 and then DEC 40 were executed on a cell holding
\* 2^16, which holds 2^16 again
C19_Witness ==
    /\ ExecutedIs("DEC")
    /\ last.err = "none"
    /\ writes = <<<<40, <<1, 1>>>>, <<40, <<1, 0>>>>>>
    /\ ram[40] = <<1, 0>>

----------------------------------------------------------------------------
(* Properties of comparison and branching.                                 *)

\* the instruction the next tick fetches
Fetched == Interpret(MemRead(ram, ptr))

\* the step is a tick that fetches an instruction with mnemonic mn
TickOf(mn) ==
    /\ nticks' = nticks + 1
    /\ InsOf(MemRead(ram, ptr)) \in OpcodeKeys
    /\ Fetched.mneumonic = mn

\* the comparison flag
Flag == MemRead(ram, ADDR_FLG)

\* C20 as stated: a tick that executes CMP lo,hi leaves 1 in the cell at
\* 25 when mem[lo] < mem[hi] and 0 otherwise and goes on to the following
\* address; a tick that executes BRB target leaves ptr at target exactly
\* when the flag is 1 and one that executes BRA target exactly when it is
\* 0, and at the following address otherwise; a branch writes nothing and
\* the run goes on, so the next fetch is at ptr; between two ticks neither
\* ptr nor the flag changes.
C20_CompareAndBranch ==
    [][/\ TickOf("CMP") =>
             /\ MemRead(ram', ADDR_FLG)
                   = IF BigLess(MemRead(ram, Fetched.lo), MemRead(ram, Fetched.hi))
                     THEN ToBig(1) ELSE ToBig(0)
             /\ ptr' = ptr + 1
       /\ TickOf("BRB") =>
             /\ ptr' = IF Flag = ToBig(1) THEN Fetched.lo ELSE ptr + 1
             /\ ram' = ram
             /\ status' = "running"
       /\ TickOf("BRA") =>
             /\ ptr' = IF Flag = ToBig(0) THEN Fetched.lo ELSE ptr + 1
             /\ ram' = ram
             /\ status' = "running"
       /\ nticks' = nticks =>
             /\ ptr' = ptr
             /\ MemRead(ram', ADDR_FLG) = Flag]_vars

\* the run goes on after a branch unless ptr was left beyond length()
BranchOutcome ==
    /\ ram' = ram
    /\ status' = IF ptr' > MemLen(ram) THEN "fault" ELSE "running"
    /\ fault' = IF ptr' > MemLen(ram) THEN "SegmentationFault" ELSE "none"

\* C20 amended: as stated, except that a branch taken to a target beyond
\* length() leaves ptr at the target and raises SegmentationFault, so that
\* nothing is fetched any more; a branch not taken never does.
C20_BranchWithinMemory ==
    [][/\ TickOf("CMP") =>
             /\ MemRead(ram', ADDR_FLG)
                   = IF BigLess(MemRead(ram, Fetched.lo), MemRead(ram, Fetched.hi))
                     THEN ToBig(1) ELSE ToBig(0)
             /\ ptr' = ptr + 1
       /\ TickOf("BRB") =>
             /\ ptr' = IF Flag = ToBig(1) THEN Fetched.lo ELSE ptr + 1
             /\ BranchOutcome
             /\ Flag # ToBig(1) => status' = "running"
       /\ TickOf("BRA") =>
             /\ ptr' = IF Flag = ToBig(0) THEN Fetched.lo ELSE ptr + 1
             /\ BranchOutcome
             /\ Flag # ToBig(0) => status' = "running"
       /\ nticks' = nticks =>
             /\ ptr' = ptr
             /\ MemRead(ram', ADDR_FLG) = Flag]_vars

\* C20 witness: CMP 40,33 at 33 has set the flag to 1 and BRB 33 at 34 has
\* taken the run back to 33
C20_Witness ==
    /\ nticks = 2
    /\ status = "running"
    /\ Flag = ToBig(1)
    /\ ptr = ADDR_PRG
    /\ Len(instructions) >= 2
    /\ instructions[1].mneumonic = "CMP"
    /\ instructions[2].mneumonic = "BRB"

\* BRA target, or BRB target, executed now would take its branch
Takes(mn, target) ==
    Execute(OpcodeNew(mn, target, 0), ram, ptr).ptr = target - 1

\* for any target exactly one of the two branches is taken
OneBranchTaken ==
    \A target \in {0, ADDR_PRG + 7} : Takes("BRA", target) # Takes("BRB", target)

FlagIsBit == Flag \in {ToBig(0), ToBig(1)}

\* C21 as stated: in every state of every run the cell at 25 holds 0 or 1,
\* and exactly one of BRA target and BRB target takes its branch.
C21_FlagIsBit == FlagIsBit /\ OneBranchTaken

\* the step is a tick whose instruction is not CMP and writes the cell at 25
StrayFlagWrite ==
    /\ nticks' = nticks + 1
    /\ ~TickOf("CMP")
    /\ Len(writes') > Len(writes)
    /\ writes'[Len(writes')][1] = ADDR_FLG

\* C21 amended: the cell at 25 reads 0 before the first tick, a tick that
\* executes CMP leaves 0 or 1 in it, and every other step leaves it as it
\* is unless it is a tick of another instruction that writes address 25;
\* in every state where it holds 0 or 1 exactly one of BRA target and BRB
\* target takes its branch, and in every other state neither does.
C21_FlagSetByCmp ==
    /\ (nticks = 0 => Flag = Zero)
    /\ [][/\ TickOf("CMP") => FlagIsBit'
          /\ (~TickOf("CMP") /\ ~StrayFlagWrite) =>
                MemRead(ram', ADDR_FLG) = Flag
          /\ FlagIsBit => OneBranchTaken
          /\ ~FlagIsBit =>
                \A target \in {0, ADDR_PRG + 7} :
                    ~Takes("BRA", target) /\ ~Takes("BRB", target)]_vars

\* C21 witness: three CMP ticks and nothing else have left the flag at 0
\* and then at 1
C21_Witness ==
    /\ nticks = 3
    /\ status = "running"
    /\ Flag = ToBig(1)
    /\ \A i \in 1..Len(writes) :
          writes[i][1] = ADDR_FLG => writes[i][2] \in {ToBig(0), ToBig(1)}
    /\ \E i \in 1..Len(writes) : writes[i] = <<ADDR_FLG, ToBig(0)>>
    /\ \A i \in 1..Len(instructions) : instructions[i].mneumonic = "CMP"

----------------------------------------------------------------------------
(* Properties of the program counter.                                      *)

\* the step is a tick
IsTick == nticks' = nticks + 1

\* the fetched instruction sets ptr itself: JMP, or a branch that is taken
SetsPtr ==
    \/ Fetched.mneumonic = "JMP"
    \/ Fetched.mneumonic = "BRA" /\ Flag = ToBig(0)
    \/ Fetched.mneumonic = "BRB" /\ Flag = ToBig(1)

\* after the step a tick is pending and the machine has not faulted
GoesOn ==
    /\ status' = "running"
    /\ \E i \in 1..Len(queue') : queue'[i] = "tick"

\* C22: a tick that executes JMP lo with lo <= length() leaves ptr = lo,
\* also for lo = 0, and a further tick pending; a tick that executes at p
\* an instruction that is neither JMP nor a taken branch nor HLT and raises
\* nothing leaves ptr = p + 1; no step between two ticks changes ptr, so
\* the next fetch is at ptr.
C22_NextFetch ==
    [][/\ (TickOf("JMP") /\ Fetched.lo <= MemLen(ram)) =>
             (ptr' = Fetched.lo /\ GoesOn)
       /\ (IsTick /\ InsOf(MemRead(ram, ptr)) \in OpcodeKeys /\ ~SetsPtr
             /\ Fetched.mneumonic # "HLT" /\ status' = "running") =>
             (ptr' = ptr + 1 /\ GoesOn)
       /\ ~IsTick => ptr' = ptr]_vars

\* C22 witness: JMP 0 at 33 was executed, and the tick after it has
\* fetched the cell at 0 and gone on to 1
C22_Witness ==
    /\ nticks = 2
    /\ ptr = 1
    /\ status = "running"
    /\ instructions[1].mneumonic = "JMP"
    /\ instructions[1].lo = 0

----------------------------------------------------------------------------
(* Properties of the runtime faults.                                       *)

\* the tick has raised err and left the machine as it was: no cell and not
\* ptr has changed, no tick is queued, and shutdown is
FatalTick(err) ==
    /\ status' = "fault"
    /\ fault' = err
    /\ ram' = ram
    /\ ptr' = ptr
    /\ Count(queue', "tick") = 0
    /\ Count(queue', "shutdown") = 1

\* once err was raised the machine shuts down: there is no tick any more,
\* ptr stays, only the device poll may change memory, and every step
\* brings the stop of the run loop nearer
ShutsDownAfter(err) ==
    (status = "fault" /\ fault = err /\ pc = "loop") =>
        /\ status' = "fault"
        /\ fault' = err
        /\ ptr' = ptr
        /\ nticks' = nticks
        /\ Count(queue', "tick") = 0
        /\ (ram' # ram => Ready("listen"))
        /\ HaltRank(queue', FALSE) < HaltRank(queue, FALSE)
        /\ \/ pc' = "done" /\ queue' = <<>>
           \/ /\ pc' = "loop"
              /\ Count(queue', "shutdown") + Count(queue', "stop") = 1

\* the word the next tick fetches has 13, 14 or 15 in bits 31-28
NoTableEntry == ptr >= 0 /\ InsOf(MemRead(ram, ptr)) \in {13, 14, 15}

\* C23: a tick that fetches a word with 13, 14 or 15 in bits 31-28 raises
\* KeyError out of interpret: no cell and not ptr changes, no tick is
\* scheduled, shutdown is, and from then on the machine shuts down.
C23_DecodeFault ==
    [][/\ (Ready("tick") /\ NoTableEntry) => FatalTick("KeyError")
       /\ ShutsDownAfter("KeyError")]_vars

\* C23 witness: the second tick fetched a word with 14 in bits 31-28, and
\* the run loop has stopped with ptr still at that word
C23_Witness ==
    /\ pc = "done"
    /\ fault = "KeyError"
    /\ nticks = 2
    /\ ptr = ADDR_PRG + 1
    /\ InsOf(MemRead(ram, ptr)) = 14

----------------------------------------------------------------------------
(* Properties of the end of the run.                                       *)

\* C24: when the run loop has stopped, after HLT or after a fault, every
\* nonzero value an instruction wrote to address 0 has been emitted, in
\* the order written, the device buffer is empty and address 0 holds 0.
C24_FlushedAtStop ==
    pc = "done" =>
        /\ out = wrote0
        /\ buf = <<>>
        /\ MemRead(ram, ADDR_IO) = Zero

\* no tick has executed HLT or raised a fault
NoTickEnded == status = "running"

\* C25: the run loop has stopped only if a tick executed HLT or raised a
\* fault; while none has, exactly one tick and one device poll are pending
\* and neither shutdown nor stop is, so a program that loops goes on; a
\* device poll leaves the machine running and the tick pending; and once a
\* tick has executed HLT or raised a fault the stop is on its way and every
\* step brings it nearer.
C25_StopsOnlyByTick ==
    [][/\ pc' = "done" => status' \in {"halted", "fault"}
       /\ (pc' = "loop" /\ NoTickEnded') =>
             /\ Count(queue', "tick") = 1
             /\ Count(queue', "listen") = 1
             /\ Count(queue', "shutdown") + Count(queue', "stop") = 0
       /\ Ready("listen") =>
             /\ status' = status
             /\ pc' = pc
             /\ Count(queue', "tick") = Count(queue, "tick")
             /\ Count(queue', "listen") = 1
       /\ (pc = "loop" /\ ~NoTickEnded) =>
             /\ ~NoTickEnded'
             /\ nticks' = nticks
             /\ HaltRank(queue', FALSE) < HaltRank(queue, FALSE)
             /\ \/ pc' = "done" /\ queue' = <<>>
                \/ /\ pc' = "loop"
                   /\ Count(queue', "shutdown") + Count(queue', "stop") = 1]_vars

\* C25 witness: the one-line program JMP 33 is still running after five
\* ticks, a tick and a poll pending
C25_Witness ==
    /\ pc = "loop"
    /\ NoTickEnded
    /\ nticks >= 5
    /\ Len(instructions) = 1
    /\ instructions[1].mneumonic = "JMP"
    /\ Count(queue, "tick") = 1
    /\ Count(queue, "listen") = 1

----------------------------------------------------------------------------
(* Properties of the operands.                                             *)

\* the step has stored value at index, or raised AssertionError and stored
\* nothing when value is no word; no other cell and not ptr has changed
Stores(index, value) ==
    /\ ptr' = ptr
    /\ IF InWord(value)
       THEN /\ last'.err = "none"
            /\ ram' = MemStore(ram, index, value)
       ELSE /\ last'.err = "AssertionError"
            /\ ram' = ram

\* the step has set ptr to target - 1 when taken, and changed nothing else
Branches(taken, target) ==
    /\ last'.err = "none"
    /\ ram' = ram
    /\ ptr' = IF taken THEN target - 1 ELSE ptr

\* what executing mnemonic mn on the integers lo and hi does when they are
\* used as they are, as address or as literal
DirectEffect(mn, lo, hi) ==
    CASE mn = "STA" -> Stores(lo, MemRead(ram, ADDR_REG))
      [] mn = "LDA" -> Stores(ADDR_REG, ToBig(lo))
      [] mn = "INC" -> Stores(lo, BigAdd(MemRead(ram, lo), ToBig(1)))
      [] mn = "DEC" -> Stores(lo, BigAdd(MemRead(ram, lo), ToBig(-1)))
      [] mn = "ADD" ->
            Stores(lo, <<0, BigAdd(MemRead(ram, lo), MemRead(ram, hi))[2]>>)
      [] mn = "SUB" -> Stores(lo, Mod16(MemRead(ram, lo), -hi))
      [] mn = "MOV" -> Stores(lo, MemRead(ram, hi))
      [] mn = "CMP" ->
            Stores(ADDR_FLG, IF BigLess(MemRead(ram, lo), MemRead(ram, hi))
                             THEN ToBig(1) ELSE ToBig(0))
      [] mn = "JMP" -> Branches(TRUE, lo)
      [] mn = "BRA" -> Branches(Flag = ToBig(0), lo)
      [] mn = "BRB" -> Branches(Flag = ToBig(1), lo)

\* C26: the integer of the Operand decoded from a 13-bit field d is d, for
\* every d from 0 to 8191, and an instruction executes on the integers in
\* its two fields as they are, reference bit included: it stores at, reads
\* from or jumps to that address or uses it as the literal, and no cell
\* named by the content of another cell is read or written.
C26_OperandDirect ==
    /\ \A d \in 0..(2 * MASK_REF - 1) : OperandInt(Operand(d)) = d
    /\ [][last'.op = "execute" =>
             /\ LoField(last'.value) < 2 * MASK_REF
             /\ HiField(last'.value) < 2 * MASK_REF
             /\ DirectEffect(Mnemonics[InsOf(last'.value) + 1],
                             LoField(last'.value), HiField(last'.value))]_vars

\* C26 witness: MOV 40,4137 has copied the cell at 4137 to the cell at 40,
\* which held 41, the address of a cell that holds something else
C26_Witness ==
    /\ ExecutedIs("MOV")
    /\ LoField(last.value) = 40
    /\ HiField(last.value) = MASK_REF + 41
    /\ prev # <<>>
    /\ prev[40] = ToBig(41)
    /\ ram[40] = prev[MASK_REF + 41]
    /\ prev[MASK_REF + 41] # prev[prev[41][2]]

----------------------------------------------------------------------------
(* Properties of the arithmetic at the ends of the word range.             *)

\* the word about to be fetched is DEC on a cell that holds 0, or INC on a
\* cell that holds 2^32 - 1
LeavesWordRange ==
    /\ ptr >= 0
    /\ InsOf(MemRead(ram, ptr)) \in OpcodeKeys
    /\ \/ Fetched.mneumonic = "DEC" /\ MemRead(ram, Fetched.lo) = Zero
       \/ Fetched.mneumonic = "INC" /\ MemRead(ram, Fetched.lo) = MaxWord

\* C27: a tick that fetches DEC on a cell holding 0, or INC on a cell
\* holding 2^32 - 1, raises AssertionError and wraps nothing around: no
\* memory cell changes, ptr is not incremented, no tick is queued and the
\* shutdown is; from then on no tick runs, ptr stays, and the run loop
\* stops after the activations still queued.
C27_RangeFault ==
    [][/\ (Ready("tick") /\ LeavesWordRange) => FatalTick("AssertionError")
       /\ ShutsDownAfter("AssertionError")]_vars

\* C27 witness: 'INC 34' followed by the word 2^32 - 1 has stopped at its
\* first tick, with the word at 34 still in place and ptr still at 33
C27_Witness ==
    /\ pc = "done"
    /\ fault = "AssertionError"
    /\ nticks = 1
    /\ ptr = ADDR_PRG
    /\ Fetched.mneumonic = "INC"
    /\ Fetched.lo = ADDR_PRG + 1
    /\ MemRead(ram, ADDR_PRG + 1) = MaxWord

----------------------------------------------------------------------------
(* Properties of the programs without HLT and jumps.                       *)

\* a program of n >= 1 words was loaded, none of them HLT, JMP, BRA or BRB
\* and each of them an instruction
NoJumpLoaded ==
    /\ pc \in {"loop", "done"}
    /\ Len(instructions) >= 1
    /\ \A i \in 1..Len(instructions) :
          /\ InsOf(instructions[i].value) \in OpcodeKeys
          /\ Mnemonics[InsOf(instructions[i].value) + 1]
                 \notin {"HLT", "JMP", "BRA", "BRB"}

\* no write so far went to an address at or beyond 33 + n
NoWriteBeyond ==
    \A i \in 1..Len(writes) : writes[i][1] < ADDR_PRG + Len(instructions)

\* the run ended with the (n+1)-th tick, which raised SegmentationFault
EndsAfterProgram ==
    /\ fault = "SegmentationFault"
    /\ nticks = Len(instructions) + 1
    /\ ptr = ADDR_PRG + Len(instructions) + 1
    /\ MemLen(ram) = ADDR_PRG + Len(instructions)

\* C28 as stated: a run of a program without HLT, JMP, BRA and BRB that
\* raised no execute fault and wrote to no address at or beyond 33 + n has
\* ended, when its last tick is over, with SegmentationFault raised by the
\* (n+1)-th tick.
C28_RunsPastEnd ==
    (/\ NoJumpLoaded
     /\ NoWriteBeyond
     /\ status # "running"
     /\ fault \notin {"AssertionError", "KeyError"}) => EndsAfterProgram

\* C28 amended: in a run of a program without HLT, JMP, BRA and BRB that
\* wrote to no address at or beyond 33 + n and to no cell of the program,
\* the k-th tick, k <= n, fetches address 33 + k - 1 and leaves ptr at
\* 33 + k <= length() with no SegmentationFault; the tick after the n-th
\* fetches the unwritten address 33 + n = length() as NUL and raises
\* SegmentationFault; no HLT is executed, and a run that raised no execute
\* fault has ended with exactly n + 1 ticks.
C28_StraightRunsPastEnd ==
    (NoJumpLoaded /\ NoWriteBeyond /\ straight) =>
        /\ nticks <= Len(instructions) + 1
        /\ MemLen(ram) = ADDR_PRG + Len(instructions)
        /\ status = "running" =>
              /\ ptr = ADDR_PRG + nticks
              /\ nticks <= Len(instructions)
              /\ ptr <= MemLen(ram)
        /\ status # "halted"
        /\ fault # "KeyError"
        /\ fault = "SegmentationFault" =>
              /\ EndsAfterProgram
              /\ MemRead(ram, ADDR_PRG + Len(instructions)) = Zero
              /\ ADDR_PRG + Len(instructions) \notin DOMAIN ram
        /\ (pc = "done" /\ fault # "AssertionError") => EndsAfterProgram

\* C28 witness: a program of two instructions, the first of which wrote to
\* address 0, has stopped on the SegmentationFault of its
\* third tick
C28_Witness ==
    /\ NoJumpLoaded
    /\ NoWriteBeyond
    /\ straight
    /\ pc = "done"
    /\ Len(instructions) = 2
    /\ instructions[1].mneumonic = "INC"
    /\ nticks = 3
    /\ EndsAfterProgram

----------------------------------------------------------------------------
(* Properties of address 0 as seen by the instructions.                    *)

\* the activation before this one was a poll, and the one before that, if
\* any, a tick
OnePollBefore ==
    /\ acts # <<>>
    /\ acts[Len(acts)] = "poll"
    /\ Len(acts) >= 2 => acts[Len(acts) - 1] = "tick"

\* what the instructions that read address 0 do when they read 0 there
ComputesWithZero ==
    /\ (TickOf("INC") /\ Fetched.lo = ADDR_IO) =>
           MemRead(ram', ADDR_IO) = ToBig(1)
    /\ (TickOf("DEC") /\ Fetched.lo = ADDR_IO) =>
           fault' = "AssertionError" /\ ram' = ram
    /\ (TickOf("SUB") /\ Fetched.lo = ADDR_IO) =>
           MemRead(ram', ADDR_IO) = <<0, (-Fetched.hi) % W16>>
    /\ (TickOf("MOV") /\ Fetched.hi = ADDR_IO) =>
           MemRead(ram', Fetched.lo) = Zero
    /\ (TickOf("ADD") /\ Fetched.hi = ADDR_IO /\ MemRead(ram, Fetched.lo)[1] = 0)
           => MemRead(ram', Fetched.lo) = MemRead(ram, Fetched.lo)
    /\ (TickOf("CMP") /\ Fetched.lo = ADDR_IO) =>
           Flag' = IF MemRead(ram, Fetched.hi) # Zero THEN ToBig(1) ELSE Zero

\* C29: exactly one poll runs between two consecutive ticks and one before
\* the first, so at the start of every tick address 0 holds 0, whatever
\* the tick before wrote there, and an instruction that reads address 0
\* computes with 0: INC 0 stores 1, DEC 0 faults, SUB 0,k stores -k modulo
\* 2^16, MOV x,0 stores 0, ADD x,0 keeps a 16-bit x, CMP 0,x sets the flag
\* exactly when x is not 0.
C29_PortReadsZero ==
    [][IsTick => /\ OnePollBefore
                 /\ MemRead(ram, ADDR_IO) = Zero
                 /\ ComputesWithZero]_vars

\* C29 witness: 'INC 0' wrote 1 to address 0, the tick after it ran
\* 'MOV 40,0' and stored 0 at 40, and the 1 was emitted
C29_Witness ==
    /\ pc = "done"
    /\ status = "halted"
    /\ nticks = 3
    /\ wrote0 = <<ToBig(1)>>
    /\ out = <<ToBig(1)>>
    /\ 40 \in DOMAIN ram
    /\ ram[40] = Zero
    /\ Interpret(MemRead(ram, ADDR_PRG + 1)).mneumonic = "MOV"

----------------------------------------------------------------------------
(* Properties of the fetch address.                                        *)

\* C30: in the run of a program with at least one instruction ptr is never
\* negative between two activations, and every tick starts with
\* 0 <= ptr <= length(), so it fetches at no negative index and at no
\* address beyond length(); length() never decreases.
C30_FetchInRange ==
    /\ instructions # <<>> => ptr >= 0
    /\ [][/\ (IsTick /\ instructions # <<>>) =>
                 0 <= ptr /\ ptr <= MemLen(ram)
          /\ MemLen(ram') >= MemLen(ram)]_vars

\* C30 witness: a JMP to the address length() was followed by the tick
\* that fetched there and ran off the end
C30_Witness ==
    /\ instructions # <<>>
    /\ instructions[1].mneumonic = "JMP"
    /\ instructions[1].lo = MemLen(ram)
    /\ nticks = 2
    /\ fault = "SegmentationFault"
    /\ ptr = MemLen(ram) + 1

----------------------------------------------------------------------------
(* Properties of the end of the programs without jumps.                    *)

Jumps == {"JMP", "BRA", "BRB"}

\* the assembled program has at least one instruction and none of them is
\* JMP, BRA or BRB, by its mnemonic and by its word
JumpFree ==
    /\ Len(instructions) >= 1
    /\ \A i \in 1..Len(instructions) :
          /\ instructions[i].mneumonic \notin Jumps
          /\ InsOf(instructions[i].value) \in OpcodeKeys
          /\ Mnemonics[InsOf(instructions[i].value) + 1] \notin Jumps

\* the word about to be fetched is an instruction other than JMP, BRA, BRB
FetchesNoJump ==
    /\ ptr >= 0
    /\ InsOf(MemRead(ram, ptr)) \in OpcodeKeys
    /\ Fetched.mneumonic \notin Jumps

\* the number of ticks that can follow without a jump: an address is at
\* most 8191, so length() is at most 8192
TicksLeft == 2 * MASK_REF + 1 - ptr

====
